---------------------------- MODULE Spec2Model ----------------------------
(***************************************************************************)
(* A model of the lecture notetaker (raulgrau/llm-agent):                  *)
(*   - LectureNotetaker.process_video (core/lecture_notetaker.py),         *)
(*   - AIProcessor.process_transcript and its six generation steps         *)
(*     (core/ai_processor.py), with the parsers computed as the code       *)
(*     computes them,                                                      *)
(*   - TranscriptExtractor.get_transcript, _parse_duration and             *)
(*     get_video_info (core/transcript_extractor.py),                      *)
(*   - NotionClient._create_page_content (core/notion_client.py),          *)
(*   - test_connections and process_playlist of the notetaker,             *)
(*   - Config.from_env and Config.validate (utils/config.py) and main of   *)
(*     the command line with its mode functions (cli/main.py),             *)
(*   - the calls made to the remote services, kept as a log.               *)
(*                                                                         *)
(* Text.  A Python str is a sequence of atoms.  An atom is one of the      *)
(* labels the parsers look for ("CONCEPT:", "TITLE:", ...), a newline, a   *)
(* blank, or an ordinary character ('---' is three atoms, '- ' two).       *)
(* split, strip, startswith and replace are computed on atoms the way      *)
(* Python computes them on characters.                                     *)
(*                                                                         *)
(* Time.  Seconds are integers; a bucket boundary i*D/N is kept as the     *)
(* exact fraction [num |-> i*D, den |-> N] and compared by                 *)
(* cross-multiplication (the code computes it in binary floating point).   *)
(***************************************************************************)
EXTENDS Integers, Sequences, FiniteSets, TLC

VARIABLES
    pc,                  \* where the running operation stands
    config,              \* Config: default_chapters, key_concepts_limit
    args,                \* the arguments of the process_video call
    video_info,          \* VideoInfo of the run (None before extraction)
    segments,            \* the TranscriptSegment list of the run
    num_chapters,        \* process_transcript's num_chapters
    limit,               \* process_transcript's key_concepts_limit
    i,                   \* _generate_chapters: the bucket index
    response,            \* the text of the last generation response
    summary,             \* process_transcript's locals ...
    key_concepts,
    chapters,
    main_topics,
    learning_objectives,
    questions,
    selected,            \* _generate_chapters: chapter_segments of each bucket so far
    calls,               \* log of the calls made to the remote services and to sleep
    exc,                 \* the exception in flight (None when there is none)
    result,              \* what process_video handed to its caller
    clients,             \* how many times each remote client handle was constructed
    returned             \* what the other public operations handed to their callers, in order

vars == << pc, config, args, video_info, segments, num_chapters, limit, i,
           response, summary, key_concepts, chapters, main_topics,
           learning_objectives, questions, selected, calls, exc, result,
           clients, returned >>

\* Python's None: for a value that is otherwise a record
None == [none |-> TRUE]

\* Optional[int] and Optional[str]: Nothing is None, Some(x) is the value x
Nothing == << >>
Some(x) == << x >>

\* LectureNotetaker.__init__: the transcript extractor builds its metadata
\* service, the AI processor its generation model, the Notion client its
\* publishing client, each once
Constructed == [youtube_service |-> 1, model |-> 1, client |-> 1]

-----------------------------------------------------------------------------
(* Python str operations, on sequences of atoms.  A pattern (a label, a   *)
(* separator) is a non-empty sequence of atoms.                            *)

NL == "\n"
SP == " "
Whitespace == {NL, SP}
Digits == {"0", "1", "2", "3", "4", "5", "6", "7", "8", "9"}

\* the text pat occurs in s at position k
IsAt(s, k, pat) ==
    /\ k + Len(pat) - 1 <= Len(s)
    /\ SubSeq(s, k, k + Len(pat) - 1) = pat

\* s.startswith(pat)
StartsWith(s, pat) == IsAt(s, 1, pat)

\* pat in s
Contains(s, pat) == \E k \in 1..Len(s) : IsAt(s, k, pat)

RECURSIVE LStrip(_)
LStrip(s) ==
    IF s # << >> /\ Head(s) \in Whitespace THEN LStrip(Tail(s)) ELSE s

RECURSIVE RStrip(_)
RStrip(s) ==
    IF s # << >> /\ s[Len(s)] \in Whitespace
    THEN RStrip(SubSeq(s, 1, Len(s) - 1)) ELSE s

\* s.strip()
Strip(s) == RStrip(LStrip(s))

\* s.split(pat): the parts between the occurrences of pat, scanned from the
\* left, without overlap; always at least one part
RECURSIVE SplitFrom(_, _, _, _)
SplitFrom(s, pat, k, cur) ==
    IF k > Len(s) THEN << cur >>
    ELSE IF IsAt(s, k, pat)
         THEN << cur >> \o SplitFrom(s, pat, k + Len(pat), << >>)
         ELSE SplitFrom(s, pat, k + 1, Append(cur, s[k]))

Split(s, pat) == SplitFrom(s, pat, 1, << >>)

\* ''.join(parts)
RECURSIVE Concat(_)
Concat(parts) ==
    IF parts = << >> THEN << >> ELSE Head(parts) \o Concat(Tail(parts))

\* '\n'.join(parts)
RECURSIVE JoinLines(_)
JoinLines(parts) ==
    IF parts = << >> THEN << >>
    ELSE IF Len(parts) = 1 THEN parts[1]
    ELSE parts[1] \o << NL >> \o JoinLines(Tail(parts))

\* s.replace(pat, ''): every occurrence of pat is removed
Replace(s, pat) == Concat(Split(s, pat))

\* seq[:n]
Prefix(seq, n) == SubSeq(seq, 1, IF Len(seq) < n THEN Len(seq) ELSE n)

\* re.sub(r'^\d+\.?\s*', '', line): a leading number, an optional dot after
\* it and the blanks after that are removed; a line that does not start with
\* a digit is left as it is
RECURSIVE DropWhile(_, _)
DropWhile(s, set) ==
    IF s # << >> /\ Head(s) \in set THEN DropWhile(Tail(s), set) ELSE s

StripNumbering(line) ==
    IF line # << >> /\ Head(line) \in Digits
    THEN LET afterDigits == DropWhile(line, Digits)
             afterDot == IF StartsWith(afterDigits, << "." >>)
                         THEN Tail(afterDigits) ELSE afterDigits
         IN DropWhile(afterDot, Whitespace)
    ELSE line

-----------------------------------------------------------------------------
(* AIProcessor._parse_key_concepts *)

CONCEPT == << "CONCEPT:" >>
DEFINITION == << "DEFINITION:" >>
IMPORTANCE == << "IMPORTANCE:" >>
Separator == << "-", "-", "-" >>

EmptyDict == [k \in {} |-> << >>]

\* the for-loop over the lines of one block: a later line overwrites an earlier one
RECURSIVE ConceptData(_, _)
ConceptData(lines, data) ==
    IF lines = << >> THEN data
    ELSE LET line == Head(lines)
             next ==
                 IF StartsWith(line, CONCEPT)
                 THEN ("term" :> Strip(Replace(line, CONCEPT))) @@ data
                 ELSE IF StartsWith(line, DEFINITION)
                 THEN ("definition" :> Strip(Replace(line, DEFINITION))) @@ data
                 ELSE IF StartsWith(line, IMPORTANCE)
                 THEN ("importance" :> Strip(Replace(line, IMPORTANCE))) @@ data
                 ELSE data
         IN ConceptData(Tail(lines), next)

ConceptKeys == {"term", "definition", "importance"}

\* all(key in concept_data for key in [...])
AllKeys(data) == \A k \in ConceptKeys : k \in DOMAIN data

KeyConcept(data) ==
    [term |-> data["term"], definition |-> data["definition"],
     importance |-> data["importance"], timestamp |-> None]

\* the block loop with concept_data created once, before the loop
RECURSIVE ParseBlocksCarrying(_, _)
ParseBlocksCarrying(blocks, carried) ==
    IF blocks = << >> THEN << >>
    ELSE LET block == Strip(Head(blocks))
             data == ConceptData(Split(block, << NL >>), carried)
         IN IF block = << >> THEN ParseBlocksCarrying(Tail(blocks), carried)
            ELSE IF AllKeys(data)
                 THEN << KeyConcept(data) >> \o ParseBlocksCarrying(Tail(blocks), data)
                 ELSE ParseBlocksCarrying(Tail(blocks), data)

ParseBlocksSharedData(blocks) == ParseBlocksCarrying(blocks, EmptyDict)

\* the for-loop over the blocks
RECURSIVE ParseBlocks(_)
ParseBlocks(blocks) ==
    IF blocks = << >> THEN << >>
    ELSE LET block == Strip(Head(blocks))
             data == ConceptData(Split(block, << NL >>), EmptyDict)
         IN IF block = << >> THEN ParseBlocks(Tail(blocks))
            ELSE IF AllKeys(data)
                 THEN << KeyConcept(data) >> \o ParseBlocks(Tail(blocks))
                 ELSE ParseBlocks(Tail(blocks))

_parse_key_concepts(text) == ParseBlocks(Split(text, Separator))

-----------------------------------------------------------------------------
(* Time: exact fractions of a second *)

RECURSIVE GCD(_, _)
GCD(a, b) == IF b = 0 THEN a ELSE GCD(b, a % b)

\* num/den in lowest terms, den > 0
Frac(num, den) ==
    LET g == GCD(IF num < 0 THEN -num ELSE num, den)
    IN IF num = 0 THEN [num |-> 0, den |-> 1]
       ELSE [num |-> num \div g, den |-> den \div g]

Secs(n) == [num |-> n, den |-> 1]

FracLess(a, b) == a.num * b.den < b.num * a.den
FracLeq(a, b) == a.num * b.den <= b.num * a.den
FracMin(a, b) == IF FracLess(b, a) THEN b ELSE a

-----------------------------------------------------------------------------
(* AIProcessor._parse_chapter *)

TITLE == << "TITLE:" >>
SUMMARY == << "SUMMARY:" >>
KEY_POINTS == << "KEY_POINTS:" >>
Bullet == << "-", SP >>

\* the for-loop over the lines: st = [data, key_points, section]
RECURSIVE ChapterData(_, _)
ChapterData(lines, st) ==
    IF lines = << >> THEN st
    ELSE LET line == Strip(Head(lines))
             next ==
                 IF StartsWith(line, TITLE)
                 THEN [st EXCEPT !.data =
                          ("title" :> Strip(Replace(line, TITLE))) @@ @]
                 ELSE IF StartsWith(line, SUMMARY)
                 THEN [st EXCEPT !.data =
                          ("summary" :> Strip(Replace(line, SUMMARY))) @@ @]
                 ELSE IF StartsWith(line, KEY_POINTS)
                 THEN [st EXCEPT !.section = "key_points"]
                 ELSE IF StartsWith(line, Bullet) /\ st.section = "key_points"
                 THEN [st EXCEPT !.key_points =
                          Append(@, Strip(Replace(line, Bullet)))]
                 ELSE st
         IN ChapterData(Tail(lines), next)

\* 'title' in chapter_data and 'summary' in chapter_data
HasTitleAndSummary(data) == "title" \in DOMAIN data /\ "summary" \in DOMAIN data

\* returns a Chapter, or None
_parse_chapter(text, start_time, end_time) ==
    LET st == ChapterData(Split(text, << NL >>),
                          [data |-> EmptyDict, key_points |-> << >>,
                           section |-> ""])
    IN IF HasTitleAndSummary(st.data)
       THEN [title |-> st.data["title"], start_time |-> start_time,
             end_time |-> end_time, summary |-> st.data["summary"],
             key_points |-> st.key_points]
       ELSE None

-----------------------------------------------------------------------------
(* The line parsers of _extract_main_topics, _generate_learning_objectives  *)
(* and _generate_questions                                                 *)

TopicsCap == 8
ObjectivesCap == 6
QuestionsCap == 8

RECURSIVE TopicLines(_)
TopicLines(lines) ==
    IF lines = << >> THEN << >>
    ELSE LET line == Strip(Head(lines))
             topic == StripNumbering(line)
         IN IF line # << >> /\ ~StartsWith(line, << "#" >>) /\ topic # << >>
            THEN << topic >> \o TopicLines(Tail(lines))
            ELSE TopicLines(Tail(lines))

\* the list returned without the [:8]
ParseTopicsUncapped(text) == TopicLines(Split(text, << NL >>))

ParseTopics(text) == Prefix(TopicLines(Split(text, << NL >>)), TopicsCap)

RECURSIVE ObjectiveLines(_)
ObjectiveLines(lines) ==
    IF lines = << >> THEN << >>
    ELSE LET line == Strip(Head(lines))
         IN IF /\ line # << >>
               /\ \/ StartsWith(line, << "Students will" >>)
                  \/ StartsWith(line, << "-" >>)
            THEN << Strip(Replace(line, Bullet)) >> \o ObjectiveLines(Tail(lines))
            ELSE ObjectiveLines(Tail(lines))

ParseObjectives(text) ==
    Prefix(ObjectiveLines(Split(text, << NL >>)), ObjectivesCap)

RECURSIVE QuestionLines(_)
QuestionLines(lines) ==
    IF lines = << >> THEN << >>
    ELSE LET line == Strip(Head(lines))
             question == StripNumbering(line)
         IN IF line # << >> /\ Contains(line, << "?" >>) /\ question # << >>
            THEN << question >> \o QuestionLines(Tail(lines))
            ELSE QuestionLines(Tail(lines))

ParseQuestions(text) ==
    Prefix(QuestionLines(Split(text, << NL >>)), QuestionsCap)

-----------------------------------------------------------------------------
(* AIProcessor._generate_chapters: the buckets *)

\* chapter_duration = total_duration / num_chapters; n # 0 here
ChapterDuration(d, n) == [num |-> d, den |-> n]

\* every bucket starting at 0
BucketStartAtZero(k, d, n) == Frac(0, ChapterDuration(d, n).den)

\* start_time = i * chapter_duration
BucketStart(k, d, n) == Frac(k * ChapterDuration(d, n).num, ChapterDuration(d, n).den)

\* end_time = min((i + 1) * chapter_duration, total_duration)
BucketEnd(k, d, n) ==
    FracMin(Frac((k + 1) * ChapterDuration(d, n).num, ChapterDuration(d, n).den),
            Secs(d))

\* seg.start >= start_time and seg.start < end_time
InBucketByOverlap(seg, start_time, end_time) ==
    /\ FracLess(Secs(seg.start), end_time)
    /\ FracLess(start_time, Secs(seg.start + seg.duration))
InBucket(seg, start_time, end_time) ==
    FracLeq(start_time, Secs(seg.start)) /\ FracLess(Secs(seg.start), end_time)

\* the indices of chapter_segments, in the order of segments
ChapterSegments(segs, start_time, end_time) ==
    SelectSeq([k \in 1..Len(segs) |-> k],
              LAMBDA k : InBucket(segs[k], start_time, end_time))

\* chapter_text = '\n'.join(seg.text for seg in chapter_segments)
ChapterText(segs, idx) == JoinLines([k \in 1..Len(idx) |-> segs[idx[k]].text])

\* `if not chapter_text.strip():`
IsBlankUnstripped(text) == text = << >>
IsBlank(text) == Strip(text) = << >>

PlaceholderSummary == << "Content summary not available." >>
PlaceholderPoint == << "Key points not available." >>

FallbackChapterFromZero(k, start_time, end_time) ==
    [title |-> << "Chapter ", ToString(k) >>, start_time |-> start_time,
     end_time |-> end_time, summary |-> PlaceholderSummary,
     key_points |-> << PlaceholderPoint >>]

\* the fallback Chapter of bucket k
FallbackChapter(k, start_time, end_time) ==
    [title |-> << "Chapter ", ToString(k + 1) >>, start_time |-> start_time,
     end_time |-> end_time, summary |-> PlaceholderSummary,
     key_points |-> << PlaceholderPoint >>]

-----------------------------------------------------------------------------
(* Exceptions (utils/exceptions.py) and records *)

\* the classes that `except Exception` catches
ExceptionClasses ==
    {"Exception", "ZeroDivisionError", "ValueError",
     "TranscriptExtractionError", "VideoNotFoundError",
     "TranscriptNotAvailableError", "AIProcessingError", "NotionAPIError"}
AllClasses == ExceptionClasses \cup {"KeyboardInterrupt"}

Raise(class, msg) == [class |-> class, msg |-> msg]

\* what a remote service raises when a call to it fails
BackendError == Raise("Exception", << "backend error" >>)

\* process_video's `except Exception as e`
CaughtOnlyOwn(e) == e.class \in {"TranscriptExtractionError", "AIProcessingError", "NotionAPIError"}
Caught(e) == e.class \in ExceptionClasses

\* the placeholders of a failed NoteResult (description, channel_title,
\* published_at and view_count are payload the model leaves out)
ErrorVideoInfo == [id |-> << >>, title |-> << "Error" >>, duration |-> 0]
EmptyContent ==
    [summary |-> << >>, key_concepts |-> << >>, chapters |-> << >>,
     main_topics |-> << >>, learning_objectives |-> << >>, questions |-> << >>]

SummaryPlaceholder == << "Summary generation failed. Please try again." >>

\* the ProcessedContent built from process_transcript's locals
Content ==
    [summary |-> summary, key_concepts |-> key_concepts, chapters |-> chapters,
     main_topics |-> main_topics, learning_objectives |-> learning_objectives,
     questions |-> questions]

\* the default only for None
PyOrNoneOnly(opt, default) == IF opt = Nothing THEN default ELSE opt[1]

\* Python's `x or default` on an Optional[int]
PyOr(opt, default) == IF opt = Nothing \/ opt[1] = 0 THEN default ELSE opt[1]

\* `if title:` on an Optional[str]
Truthy(opt) == opt # Nothing /\ opt[1] # << >>

\* notion_page_title_template.format(title=...), the default template
PageTitle(title) == title \o << " - Lecture Notes" >>

-----------------------------------------------------------------------------
(* Inputs: what the caller, the configuration and the remote services give *)

\* Config: DEFAULT_CHAPTERS and KEY_CONCEPTS_LIMIT are read from the
\* environment as integers and are not validated
Configs ==
    [default_chapters : {0, 2}, key_concepts_limit : {1}, summary_length : {300}]

\* the arguments of process_video: every combination of title, chapters,
\* key_concepts_limit and create_notion_page without a summary_length, and
\* a summary_length of 0 or 100 with the others left out
ArgSets ==
    [title : {Nothing, Some(<< >>), Some(<< "Custom" >>)},
     chapters : {Nothing, Some(0), Some(2)},
     key_concepts_limit : {Nothing, Some(0), Some(2)},
     summary_length : {Nothing},
     create_notion_page : BOOLEAN]
    \cup [title : {Nothing}, chapters : {Nothing},
          key_concepts_limit : {Nothing},
          summary_length : {Some(0), Some(100)},
          create_notion_page : {TRUE}]

Segment(text, start, duration) ==
    [text |-> text, start |-> start, duration |-> duration]

\* what extraction gives for a video: metadata and transcript segments
Videos ==
    { [info |-> [id |-> << "v1" >>, title |-> << "Fetched" >>, duration |-> 600],
       segments |-> << Segment(<< "a" >>, 0, 5), Segment(<< "b" >>, 300, 5) >>],
      [info |-> [id |-> << "v2" >>, title |-> << "Fetched" >>, duration |-> 600],
       segments |-> << Segment(<< >>, 0, 5), Segment(<< "b" >>, 450, 5) >>] }

ExtractOutcomes ==
    {[kind |-> k] :
        k \in {"bad_url", "api_error", "not_found", "no_transcript", "interrupt"}}
    \cup {[kind |-> "ok", video |-> v] : v \in Videos}

\* a generation call raises, or returns a response with this text
Raised == [raised |-> TRUE, text |-> << >>]
Returned(t) == [raised |-> FALSE, text |-> t]
OutcomesOf(texts) == {Raised} \cup {Returned(t) : t \in texts}

SummaryResponses == { << SP, "S", NL >> }

CompleteBlock(a, b, c) ==
    CONCEPT \o << SP, a, NL >> \o DEFINITION \o << SP, b, NL >>
    \o IMPORTANCE \o << SP, c, NL >>

\* two complete concept blocks
KeyConceptResponses ==
    { CompleteBlock("A", "B", "C") \o Separator \o << NL >>
      \o CompleteBlock("D", "E", "F") \o Separator }

FullChapter ==
    TITLE \o << SP, "T", NL >> \o SUMMARY \o << SP, "S", NL >>
    \o KEY_POINTS \o << NL >> \o Bullet \o << "P" >>
NoTitleChapter == SUMMARY \o << SP, "S", NL >> \o KEY_POINTS \o << NL >> \o Bullet \o << "P" >>
NoSummaryChapter == TITLE \o << SP, "T" >>
IndentedChapter == << SP >> \o TITLE \o << "T", NL, SP >> \o SUMMARY \o << "S" >>
MidLineChapter == << "x", SP >> \o TITLE \o << "T", NL >> \o SUMMARY \o << "S" >>
BareChapter == TITLE \o << NL >> \o SUMMARY
NeitherChapter == << "x" >>

ChapterResponsesSmall == {FullChapter, NoTitleChapter}
ChapterResponsesAll ==
    {FullChapter, NoTitleChapter, NoSummaryChapter, IndentedChapter,
     MidLineChapter, BareChapter, NeitherChapter}

TopicResponses == { << "1", ".", SP, "t", NL, "#", "h", NL, "u" >> }
ObjectiveResponses == { << "Students will", SP, "o", NL, "-", SP, "p", NL, "x" >> }
QuestionResponses == { << "1", ".", SP, "q", "?", NL, "x" >> }

-----------------------------------------------------------------------------
(* LectureNotetaker.process_video *)

Log(entry) == calls' = Append(calls, entry)

\* a generate_content call; title is the video title its prompt is written
\* with (each of the six prompts has a line with video_info.title), text
\* the text of the response ('' when the call raised)
Generate(step, bucket, o) ==
    [op |-> "generate", step |-> step, bucket |-> bucket, raised |-> o.raised,
     title |-> video_info.title, text |-> o.text]

Call(op) == [op |-> op, step |-> "", bucket |-> -1, raised |-> FALSE]
FailedCall(op) == [op |-> op, step |-> "", bucket |-> -1, raised |-> TRUE]

Init ==
    /\ pc = "idle"
    /\ config \in Configs
    /\ args = None
    /\ video_info = None
    /\ segments = << >>
    /\ num_chapters = 0
    /\ limit = 0
    /\ i = 0
    /\ response = None
    /\ summary = << >>
    /\ key_concepts = << >>
    /\ chapters = << >>
    /\ main_topics = << >>
    /\ learning_objectives = << >>
    /\ questions = << >>
    /\ selected = << >>
    /\ calls = << >>
    /\ exc = None
    /\ result = None
    /\ clients = Constructed
    /\ returned = << >>

\* process_video is called
Start(a) ==
    /\ pc = "idle"
    /\ pc' = "extract"
    /\ args' = a
    /\ UNCHANGED << config, clients, returned,
                    video_info, segments, num_chapters, limit, i,
                    response, summary, key_concepts, chapters, main_topics,
                    learning_objectives, questions, selected, calls, exc, result >>

\* the title left as it was fetched
OverrideTitleNever(info, title) == info

\* lecture_notetaker.py 82-83: `if title: video_info.title = title`
OverrideTitle(info, title) ==
    [info EXCEPT !.title = IF Truthy(title) THEN title[1] ELSE @]

\* the transcript fetched before the metadata
ExtractionCallsTranscriptFirst(o) ==
    << Call("transcripts.list"), Call("transcripts.fetch"), Call("videos.list") >>

\* the remote calls of extract_from_url (transcript_extractor.py 338-340):
\* extract_video_id makes none; get_video_info makes the metadata call;
\* get_transcript is reached only when get_video_info returned
ExtractionCalls(o) ==
    CASE o.kind = "bad_url" -> << >>
      [] o.kind = "api_error" -> << FailedCall("videos.list") >>
      [] o.kind = "not_found" -> << Call("videos.list") >>
      [] o.kind = "no_transcript" ->
             << Call("videos.list"), Call("transcripts.list"),
                FailedCall("transcripts.fetch") >>
      [] o.kind = "interrupt" -> << FailedCall("videos.list") >>
      [] o.kind = "ok" ->
             << Call("videos.list"), Call("transcripts.list"),
                Call("transcripts.fetch") >>

\* what extract_from_url raises: extract_video_id's error (line 115),
\* get_video_info's VideoNotFoundError, re-raised as it is (lines 137-138,
\* 160-161), any other failure of the metadata call wrapped (162-164),
\* get_transcript's error; a KeyboardInterrupt is no Exception and passes
ExtractionError(o) ==
    CASE o.kind = "bad_url" ->
             Raise("TranscriptExtractionError",
                   << "Could not extract video ID from URL: " >>)
      [] o.kind = "api_error" ->
             Raise("TranscriptExtractionError",
                   << "Failed to get video info: " >> \o BackendError.msg)
      [] o.kind = "not_found" ->
             Raise("VideoNotFoundError", << "Video not found: " >>)
      [] o.kind = "no_transcript" ->
             Raise("TranscriptNotAvailableError",
                   << "No transcript available for video: " >>)
      [] o.kind = "interrupt" -> Raise("KeyboardInterrupt", << >>)

\* transcript_extractor.extract_from_url, then the title override and the
\* resolution of the defaults (lecture_notetaker.py 77-94)
Extract(o) ==
    /\ pc = "extract"
    /\ calls' = calls \o ExtractionCalls(o)
    /\ exc' = IF o.kind = "ok" THEN exc ELSE ExtractionError(o)
    /\ IF o.kind = "ok"
       THEN /\ pc' = "summary"
            /\ video_info' = OverrideTitle(o.video.info, args.title)
            /\ segments' = o.video.segments
            /\ num_chapters' = PyOr(args.chapters, config.default_chapters)
            /\ limit' = PyOr(args.key_concepts_limit, config.key_concepts_limit)
       ELSE /\ pc' = "except"
            /\ UNCHANGED << video_info, segments, num_chapters, limit >>
    /\ UNCHANGED << config, clients, returned,
                    args, i, response, summary, key_concepts, chapters,
                    main_topics, learning_objectives, questions, selected, result >>

-----------------------------------------------------------------------------
(* AIProcessor.process_transcript: the six steps, in the order of the code *)

LastResponse(step, bucket, o) ==
    [step |-> step, bucket |-> bucket, raised |-> o.raised, text |-> o.text]

\* the call of _generate_summary: its prompt asks for target_length words,
\* the summary_length process_video passed (lecture_notetaker.py 91)
SummaryGeneration(o) ==
    [op |-> "generate", step |-> "summary", bucket |-> -1, raised |-> o.raised,
     title |-> video_info.title, text |-> o.text,
     target_length |-> PyOr(args.summary_length, config.summary_length)]

\* _generate_summary without its try/except: the error reaches
\* process_transcript's handler
GenerateSummaryUnguarded(o) ==
    /\ pc = "summary"
    /\ pc' = IF o.raised THEN "except" ELSE "key_concepts"
    /\ exc' = IF o.raised
              THEN Raise("AIProcessingError",
                         << "Processing failed: " >> \o BackendError.msg)
              ELSE exc
    /\ Log(SummaryGeneration(o))
    /\ response' = LastResponse("summary", -1, o)
    /\ summary' = IF o.raised THEN summary ELSE Strip(o.text)
    /\ UNCHANGED << config, clients, returned, args, video_info, segments,
                    num_chapters, limit, i, key_concepts, chapters, main_topics,
                    learning_objectives, questions, selected, result >>

\* _generate_summary
GenerateSummary(o) ==
    /\ pc = "summary"
    /\ pc' = "key_concepts"
    /\ Log(SummaryGeneration(o))
    /\ response' = LastResponse("summary", -1, o)
    /\ summary' = IF o.raised THEN SummaryPlaceholder ELSE Strip(o.text)
    /\ UNCHANGED << config, clients, returned,
                    args, video_info, segments, num_chapters, limit, i,
                    key_concepts, chapters, main_topics, learning_objectives,
                    questions, selected, exc, result >>

\* _extract_key_concepts
ExtractKeyConcepts(o) ==
    /\ pc = "key_concepts"
    /\ pc' = "chapters"
    /\ Log(Generate("key_concepts", -1, o))
    /\ response' = LastResponse("key_concepts", -1, o)
    /\ key_concepts' = IF o.raised THEN << >> ELSE _parse_key_concepts(o.text)
    /\ UNCHANGED << config, clients, returned,
                    args, video_info, segments, num_chapters, limit, i,
                    summary, chapters, main_topics, learning_objectives,
                    questions, selected, exc, result >>

\* _generate_chapters up to its loop: the division total_duration /
\* num_chapters raises ZeroDivisionError when num_chapters is 0, which
\* process_transcript's `except Exception` turns into AIProcessingError;
\* range(num_chapters) is empty when num_chapters < 0
EnterChapters ==
    /\ pc = "chapters"
    /\ IF num_chapters = 0
       THEN /\ pc' = "except"
            /\ exc' = Raise("AIProcessingError",
                            << "Processing failed: ", "division by zero" >>)
       ELSE /\ pc' = IF 0 < num_chapters THEN "chapter_loop" ELSE "topics"
            /\ exc' = exc
    /\ i' = 0
    /\ chapters' = << >>
    /\ selected' = << >>
    /\ UNCHANGED << config, clients, returned,
                    args, video_info, segments, num_chapters, limit,
                    response, summary, key_concepts, main_topics,
                    learning_objectives, questions, calls, result >>

\* a missing chapter replaced by the fallback of the current bucket
KeepParsedOrFallback(list, chapter) ==
    IF chapter # None THEN Append(list, chapter)
    ELSE Append(list,
                FallbackChapter(i,
                    BucketStart(i, video_info.duration, num_chapters),
                    BucketEnd(i, video_info.duration, num_chapters)))

\* `if chapter: chapters.append(chapter)`
KeepParsed(list, chapter) ==
    IF chapter # None THEN Append(list, chapter) ELSE list

\* one iteration of the loop of _generate_chapters, for bucket i
ChapterStep(o) ==
    /\ pc = "chapter_loop"
    /\ i < num_chapters
    /\ LET start_time == BucketStart(i, video_info.duration, num_chapters)
           end_time == BucketEnd(i, video_info.duration, num_chapters)
           chapter_segments == ChapterSegments(segments, start_time, end_time)
           chapter_text == ChapterText(segments, chapter_segments)
           chapter == _parse_chapter(o.text, start_time, end_time)
       IN /\ selected' = Append(selected, chapter_segments)
          /\ IF IsBlank(chapter_text)
             THEN \* continue
                  UNCHANGED << chapters, calls, response >>
             ELSE /\ response' = LastResponse("chapter", i, o)
                  /\ IF o.raised
                     THEN /\ chapters' = Append(chapters,
                                           FallbackChapter(i, start_time, end_time))
                          /\ Log(Generate("chapter", i, o))
                     ELSE /\ chapters' = KeepParsed(chapters, chapter)
                          /\ calls' = calls \o << Generate("chapter", i, o),
                                                  Call("sleep") >>
    /\ i' = i + 1
    /\ pc' = IF i + 1 < num_chapters THEN "chapter_loop" ELSE "topics"
    /\ UNCHANGED << config, clients, returned,
                    args, video_info, segments, num_chapters, limit,
                    summary, key_concepts, main_topics, learning_objectives,
                    questions, exc, result >>

\* _extract_main_topics without its try/except: the error reaches
\* process_transcript's handler
ExtractMainTopicsUnguarded(o) ==
    /\ pc = "topics"
    /\ pc' = IF o.raised THEN "except" ELSE "objectives"
    /\ exc' = IF o.raised
              THEN Raise("AIProcessingError",
                         << "Processing failed: " >> \o BackendError.msg)
              ELSE exc
    /\ Log(Generate("topics", -1, o))
    /\ response' = LastResponse("topics", -1, o)
    /\ main_topics' = IF o.raised THEN main_topics ELSE ParseTopics(o.text)
    /\ UNCHANGED << config, clients, returned,
                    args, video_info, segments, num_chapters, limit, i,
                    summary, key_concepts, chapters, learning_objectives,
                    questions, selected, result >>

\* _extract_main_topics
ExtractMainTopics(o) ==
    /\ pc = "topics"
    /\ pc' = "objectives"
    /\ Log(Generate("topics", -1, o))
    /\ response' = LastResponse("topics", -1, o)
    /\ main_topics' = IF o.raised THEN << >> ELSE ParseTopics(o.text)
    /\ UNCHANGED << config, clients, returned,
                    args, video_info, segments, num_chapters, limit, i,
                    summary, key_concepts, chapters, learning_objectives,
                    questions, selected, exc, result >>

\* _generate_learning_objectives
GenerateLearningObjectives(o) ==
    /\ pc = "objectives"
    /\ pc' = "questions"
    /\ Log(Generate("objectives", -1, o))
    /\ response' = LastResponse("objectives", -1, o)
    /\ learning_objectives' = IF o.raised THEN << >> ELSE ParseObjectives(o.text)
    /\ UNCHANGED << config, clients, returned,
                    args, video_info, segments, num_chapters, limit, i,
                    summary, key_concepts, chapters, main_topics, questions,
                    selected, exc, result >>

\* _generate_questions, and the return of the ProcessedContent
GenerateQuestions(o) ==
    /\ pc = "questions"
    /\ pc' = "publish"
    /\ Log(Generate("questions", -1, o))
    /\ response' = LastResponse("questions", -1, o)
    /\ questions' = IF o.raised THEN << >> ELSE ParseQuestions(o.text)
    /\ UNCHANGED << config, clients, returned,
                    args, video_info, segments, num_chapters, limit, i,
                    summary, key_concepts, chapters, main_topics,
                    learning_objectives, selected, exc, result >>

-----------------------------------------------------------------------------
(* NotionClient._create_page_content *)

\* a block: its type and the content of its text (none for a divider)
Block(type, content) == [type |-> type, content |-> content]
Divider == Block("divider", << >>)

\* f"{n:02d}"
TwoDigits(n) == IF n < 10 THEN << "0", ToString(n) >> ELSE << ToString(n) >>

\* f"{duration // 60}:{duration % 60:02d}"
Clock(minutes, seconds) == << ToString(minutes), ":" >> \o TwoDigits(seconds)

\* lines 160-212 (channel, publication date and views are payload left out)
_create_header_section(info) ==
    << Block("heading_1", info.title),
       Block("paragraph",
             << "Duration: " >> \o Clock(info.duration \div 60, info.duration % 60)
             \o << NL, "URL: https://www.youtube.com/watch?v=" >> \o info.id),
       Divider >>

\* lines 233-250: the paragraphs of the summary that are not blank
RECURSIVE Paragraphs(_)
Paragraphs(parts) ==
    IF parts = << >> THEN << >>
    ELSE IF Strip(Head(parts)) # << >>
         THEN << Block("paragraph", Strip(Head(parts))) >> \o Paragraphs(Tail(parts))
         ELSE Paragraphs(Tail(parts))

\* lines 214-252
_create_summary_section(text) ==
    << Block("heading_2", << "Summary" >>) >> \o Paragraphs(Split(text, << NL, NL >>))

\* one block of a type per entry of a list of strings
Items(type, list) == [k \in 1..Len(list) |-> Block(type, list[k])]

\* lines 254-290
_create_learning_objectives_section(objectives) ==
    << Block("heading_2", << "Learning Objectives" >>) >>
    \o Items("bulleted_list_item", objectives)

\* lines 292-328
_create_main_topics_section(topics) ==
    << Block("heading_2", << "Main Topics" >>) >> \o Items("numbered_list_item", topics)

\* lines 349-399: term, definition, importance of each concept
RECURSIVE ConceptBlocks(_)
ConceptBlocks(concepts) ==
    IF concepts = << >> THEN << >>
    ELSE << Block("heading_3", Head(concepts).term),
            Block("paragraph", << "**Definition:** " >> \o Head(concepts).definition),
            Block("paragraph", << "**Why it matters:** " >> \o Head(concepts).importance) >>
         \o ConceptBlocks(Tail(concepts))

\* lines 330-401
_create_key_concepts_section(concepts) ==
    << Block("heading_2", << "Key Concepts" >>) >> \o ConceptBlocks(concepts)

\* int(t // 60) and int(t % 60) of a time in seconds
MinutesOf(t) == (t.num \div t.den) \div 60
SecondsOf(t) == (t.num \div t.den) % 60

\* lines 422-496: numbered title with the times, summary, key points
RECURSIVE ChapterBlocks(_, _)
ChapterBlocks(list, k) ==
    IF list = << >> THEN << >>
    ELSE LET chapter == Head(list)
         IN << Block("heading_3",
                     << ToString(k), ". " >> \o chapter.title \o << " (" >>
                     \o Clock(MinutesOf(chapter.start_time), SecondsOf(chapter.start_time))
                     \o << " - " >>
                     \o Clock(MinutesOf(chapter.end_time), SecondsOf(chapter.end_time))
                     \o << ")" >>),
               Block("paragraph", chapter.summary) >>
            \o (IF chapter.key_points # << >>
                THEN << Block("paragraph", << "**Key Points:**" >>) >>
                     \o Items("bulleted_list_item", chapter.key_points)
                ELSE << >>)
            \o ChapterBlocks(Tail(list), k + 1)

\* lines 403-498
_create_chapters_section(list) ==
    << Block("heading_2", << "Chapters" >>) >> \o ChapterBlocks(list, 1)

\* lines 500-535
_create_questions_section(list) ==
    << Block("heading_2", << "Review Questions" >>) >>
    \o Items("numbered_list_item", list)

\* lines 537-572 (the time of generation is payload left out)
_create_footer_section ==
    << Divider,
       Block("paragraph", << "Notes generated automatically by Automated Lecture Notetaker" >>) >>

\* the topics rendered before the objectives
CreatePageContentTopicsFirst(info, content) ==
    _create_header_section(info)
    \o _create_summary_section(content.summary)
    \o (IF content.main_topics # << >>
        THEN _create_main_topics_section(content.main_topics) ELSE << >>)
    \o (IF content.learning_objectives # << >>
        THEN _create_learning_objectives_section(content.learning_objectives)
        ELSE << >>)
    \o (IF content.key_concepts # << >>
        THEN _create_key_concepts_section(content.key_concepts) ELSE << >>)
    \o (IF content.chapters # << >>
        THEN _create_chapters_section(content.chapters) ELSE << >>)
    \o (IF content.questions # << >>
        THEN _create_questions_section(content.questions) ELSE << >>)
    \o _create_footer_section

\* lines 113-158
_create_page_content(info, content) ==
    _create_header_section(info)
    \o _create_summary_section(content.summary)
    \o (IF content.learning_objectives # << >>
        THEN _create_learning_objectives_section(content.learning_objectives)
        ELSE << >>)
    \o (IF content.main_topics # << >>
        THEN _create_main_topics_section(content.main_topics) ELSE << >>)
    \o (IF content.key_concepts # << >>
        THEN _create_key_concepts_section(content.key_concepts) ELSE << >>)
    \o (IF content.chapters # << >>
        THEN _create_chapters_section(content.chapters) ELSE << >>)
    \o (IF content.questions # << >>
        THEN _create_questions_section(content.questions) ELSE << >>)
    \o _create_footer_section

-----------------------------------------------------------------------------
(* process_video, after processing *)

NoteResult(v, c, url, ok, msg) ==
    [video_info |-> v, processed_content |-> c, notion_url |-> url,
     success |-> ok, error_message |-> msg]

PageUrl == << "https://notion.so/page" >>

\* `if create_notion_page:`
ShouldPublishAlways == TRUE
ShouldPublish == args.create_notion_page

\* lecture_notetaker.py 98-113: publish when asked to, then return the
\* successful NoteResult; create_lecture_notes wraps whatever the remote
\* call raises into NotionAPIError
Publish(raises) ==
    /\ pc = "publish"
    /\ IF ShouldPublish
       THEN /\ calls' = Append(calls,
                   [op |-> "pages.create", step |-> "", bucket |-> -1,
                    raised |-> raises,
                    title |-> PageTitle(video_info.title), content |-> Content,
                    children |-> _create_page_content(video_info, Content)])
            /\ IF raises
               THEN /\ pc' = "except"
                    /\ exc' = Raise("NotionAPIError",
                                    << "Page creation failed: " >> \o BackendError.msg)
                    /\ result' = result
               ELSE /\ pc' = "returned"
                    /\ exc' = exc
                    /\ result' = NoteResult(video_info, Content, Some(PageUrl),
                                            TRUE, Nothing)
       ELSE /\ pc' = "returned"
            /\ result' = NoteResult(video_info, Content, Nothing, TRUE, Nothing)
            /\ UNCHANGED << calls, exc >>
    /\ UNCHANGED << config, clients, returned,
                    args, video_info, segments, num_chapters, limit, i,
                    response, summary, key_concepts, chapters, main_topics,
                    learning_objectives, questions, selected >>

\* the failed NoteResult handing back what the run had computed
FailedResultWithRecords(e) ==
    NoteResult(IF video_info = None THEN ErrorVideoInfo ELSE video_info,
               Content, Nothing, FALSE, Some(e.msg))

\* lecture_notetaker.py 117-128: the NoteResult of the handler, built from
\* constants and str(e); notion_url keeps its default, None
FailedResult(e) ==
    NoteResult(ErrorVideoInfo, EmptyContent, Nothing, FALSE, Some(e.msg))

\* lecture_notetaker.py 115-128: `except Exception as e`; anything else
\* (KeyboardInterrupt) leaves process_video as an exception
HandleException ==
    /\ pc = "except"
    /\ IF Caught(exc)
       THEN /\ pc' = "returned"
            /\ result' = FailedResult(exc)
       ELSE /\ pc' = "propagated"
            /\ result' = result
    /\ UNCHANGED << config, clients, returned,
                    args, video_info, segments, num_chapters, limit, i,
                    response, summary, key_concepts, chapters, main_topics,
                    learning_objectives, questions, selected, calls, exc >>

-----------------------------------------------------------------------------
(* The specification of one process_video run *)

StartCall == \E a \in ArgSets : Start(a)
ExtractCall == \E o \in ExtractOutcomes : Extract(o)
SummaryCall == \E o \in OutcomesOf(SummaryResponses) : GenerateSummary(o)
KeyConceptsCall == \E o \in OutcomesOf(KeyConceptResponses) : ExtractKeyConcepts(o)
ChapterCall == \E o \in OutcomesOf(ChapterResponsesSmall) : ChapterStep(o)
TopicsCall == \E o \in OutcomesOf(TopicResponses) : ExtractMainTopics(o)
ObjectivesCall == \E o \in OutcomesOf(ObjectiveResponses) : GenerateLearningObjectives(o)
QuestionsCall == \E o \in OutcomesOf(QuestionResponses) : GenerateQuestions(o)
PublishCall == \E raises \in BOOLEAN : Publish(raises)

Next ==
    \/ StartCall
    \/ ExtractCall
    \/ SummaryCall
    \/ KeyConceptsCall
    \/ EnterChapters
    \/ ChapterCall
    \/ TopicsCall
    \/ ObjectivesCall
    \/ QuestionsCall
    \/ PublishCall
    \/ HandleException

Spec == Init /\ [][Next]_vars

-----------------------------------------------------------------------------
(* _generate_chapters on its own: any bucket count, duration and segments *)

MaxChapters == 3
MaxSegs == 2
MaxStart == 7

ChapterDurations == {0, 6, 7}
SegmentTexts == { << >>, << "a" >> }
SegmentChoices ==
    {Segment(t, st, 2) : t \in SegmentTexts, st \in -1..MaxStart}

\* the chronological segment lists of at most n segments
RECURSIVE SegmentLists(_)
SegmentLists(n) ==
    IF n = 0 THEN { << >> }
    ELSE LET shorter == SegmentLists(n - 1)
         IN shorter \cup
            {Append(l, seg) : l \in {x \in shorter : Len(x) = n - 1},
                              seg \in SegmentChoices}

Chronological(segs) ==
    \A k \in 1..(Len(segs) - 1) : segs[k].start <= segs[k + 1].start

\* the state in which process_transcript calls _generate_chapters
InChapters(info, segs, n) ==
    /\ pc = "chapters"
    /\ config = [default_chapters |-> 2, key_concepts_limit |-> 1,
                 summary_length |-> 300]
    /\ args = [title |-> Nothing, chapters |-> Some(n),
               key_concepts_limit |-> Nothing, summary_length |-> Nothing,
               create_notion_page |-> TRUE]
    /\ video_info = info
    /\ segments = segs
    /\ num_chapters = n
    /\ limit = 1
    /\ i = 0
    /\ response = None
    /\ summary = SummaryPlaceholder
    /\ key_concepts = << >>
    /\ chapters = << >>
    /\ main_topics = << >>
    /\ learning_objectives = << >>
    /\ questions = << >>
    /\ selected = << >>
    /\ calls = << >>
    /\ exc = None
    /\ result = None
    /\ clients = Constructed
    /\ returned = << >>

InitChapters ==
    \E d \in ChapterDurations, n \in -1..MaxChapters,
       segs \in {l \in SegmentLists(MaxSegs) : Chronological(l)} :
        InChapters([id |-> << "v" >>, title |-> << "Fetched" >>, duration |-> d],
                   segs, n)

NextChapters ==
    \/ EnterChapters
    \/ ChapterCall

SpecChapters == InitChapters /\ [][NextChapters]_vars

\* the same loop on the two sample videos, with every kind of response
InitResponses ==
    \E v \in Videos, n \in 1..3 : InChapters(v.info, v.segments, n)

ChapterCallAny == \E o \in OutcomesOf(ChapterResponsesAll) : ChapterStep(o)

NextResponses ==
    \/ EnterChapters
    \/ ChapterCallAny

SpecResponses == InitResponses /\ [][NextResponses]_vars

-----------------------------------------------------------------------------
(* _extract_key_concepts on its own: every response made of a few pieces *)

MaxPieces == 4

\* the pieces: a complete block followed by its separator, as the prompt
\* asks for it; single labelled lines; a label alone; a separator, a
\* newline, a blank
KeyConceptPieces ==
    { CompleteBlock("A", "B", "C") \o Separator,
      CompleteBlock("D", "E", "F") \o Separator,
      CONCEPT,
      DEFINITION \o << SP, "B", NL >>,
      IMPORTANCE \o << SP, "C", NL >>,
      Separator,
      << NL >>,
      << SP >> }

\* the texts made of at most n pieces
RECURSIVE TextsOf(_, _)
TextsOf(pieces, n) ==
    IF n = 0 THEN { << >> }
    ELSE LET shorter == TextsOf(pieces, n - 1)
         IN shorter \cup {piece \o t : piece \in pieces, t \in shorter}

InitKeyConcepts ==
    /\ pc = "key_concepts"
    /\ config = [default_chapters |-> 2, key_concepts_limit |-> 1,
                 summary_length |-> 300]
    /\ args = [title |-> Nothing, chapters |-> Nothing,
               key_concepts_limit |-> Nothing, summary_length |-> Nothing,
               create_notion_page |-> TRUE]
    /\ video_info = [id |-> << "v" >>, title |-> << "Fetched" >>, duration |-> 600]
    /\ segments = << Segment(<< "a" >>, 0, 5) >>
    /\ num_chapters = 2
    /\ limit = 1
    /\ i = 0
    /\ response = None
    /\ summary = SummaryPlaceholder
    /\ key_concepts = << >>
    /\ chapters = << >>
    /\ main_topics = << >>
    /\ learning_objectives = << >>
    /\ questions = << >>
    /\ selected = << >>
    /\ calls = << >>
    /\ exc = None
    /\ result = None
    /\ clients = Constructed
    /\ returned = << >>

KeyConceptsCallAny ==
    /\ pc = "key_concepts"
    /\ \E o \in OutcomesOf(TextsOf(KeyConceptPieces, MaxPieces)) :
           ExtractKeyConcepts(o)

NextKeyConcepts == KeyConceptsCallAny

SpecKeyConcepts == InitKeyConcepts /\ [][NextKeyConcepts]_vars

-----------------------------------------------------------------------------
(* _extract_main_topics, _generate_learning_objectives and                 *)
(* _generate_questions, each on its own: every response of a few lines     *)

MaxLines == 9

\* the lines of a topics response: a plain topic and a heading, which make
\* up the body, and a numbered topic
TopicPieces == { << SP, "A", NL >>, << "#", "C", NL >> }
NumberedTopic == << "1", ".", SP, "B", NL >>

\* of an objectives response: a bulleted objective and another line, and an
\* objective that opens with 'Students will'
ObjectivePieces == { << "-", SP, "Y", NL >>, << "Z", NL >> }
StudentsWill == << "Students will", SP, "X", NL >>

\* of a questions response: a question and a line without '?', and a
\* numbered question
QuestionPieces == { << "Q", "?", NL >>, << "N", NL >> }
NumberedQuestion == << "2", ".", SP, "R", "?", NL >>

\* the responses of at most n lines: a body of the two kinds of lines, with
\* the third kind of line before it, after it, or not at all
LineTexts(pieces, third, n) ==
    LET bodies == TextsOf(pieces, n - 1)
    IN TextsOf(pieces, n) \cup {third \o t : t \in bodies}
                          \cup {t \o third : t \in bodies}

InLists(step) ==
    /\ pc = step
    /\ config = [default_chapters |-> 2, key_concepts_limit |-> 1,
                 summary_length |-> 300]
    /\ args = [title |-> Nothing, chapters |-> Nothing,
               key_concepts_limit |-> Nothing, summary_length |-> Nothing,
               create_notion_page |-> TRUE]
    /\ video_info = [id |-> << "v" >>, title |-> << "Fetched" >>, duration |-> 600]
    /\ segments = << Segment(<< "a" >>, 0, 5) >>
    /\ num_chapters = 2
    /\ limit = 1
    /\ i = 0
    /\ response = None
    /\ summary = SummaryPlaceholder
    /\ key_concepts = << >>
    /\ chapters = << >>
    /\ main_topics = << >>
    /\ learning_objectives = << >>
    /\ questions = << >>
    /\ selected = << >>
    /\ calls = << >>
    /\ exc = None
    /\ result = None
    /\ clients = Constructed
    /\ returned = << >>

InitLists == \E step \in {"topics", "objectives", "questions"} : InLists(step)

\* one call of the method, with any response
TopicsCallAny ==
    /\ pc = "topics" /\ calls = << >>
    /\ \E o \in OutcomesOf(LineTexts(TopicPieces, NumberedTopic, MaxLines)) : ExtractMainTopics(o)

ObjectivesCallAny ==
    /\ pc = "objectives" /\ calls = << >>
    /\ \E o \in OutcomesOf(LineTexts(ObjectivePieces, StudentsWill, MaxLines)) :
           GenerateLearningObjectives(o)

QuestionsCallAny ==
    /\ pc = "questions" /\ calls = << >>
    /\ \E o \in OutcomesOf(LineTexts(QuestionPieces, NumberedQuestion, MaxLines)) :
           GenerateQuestions(o)

NextLists ==
    \/ TopicsCallAny
    \/ ObjectivesCallAny
    \/ QuestionsCallAny

SpecLists == InitLists /\ [][NextLists]_vars

-----------------------------------------------------------------------------
(* TranscriptExtractor.get_transcript *)

\* The value fetch() returns is one of
\*   [kind |-> "snippets", snippets |-> ...]  an object with a snippets attribute,
\*   [kind |-> "str", text |-> ...]           a plain string,
\*   [kind |-> "list", entries |-> ...]       a list,
\*   [kind |-> "other", repr |-> ...]         anything else, repr being its str().
\* A snippet or a dict entry is a record that has some of the fields text,
\* start and duration; a number field holds Some(n), or Nothing for None.
\* A list entry that is not a dict is [repr |-> its str()].

Has(rec, field) == field \in DOMAIN rec

\* float(x): raises on None
FloatRaises(x) == x = Nothing
Float(x) == x[1]

\* str() of a snippet object that has no text attribute
SnippetRepr == << "<snippet>" >>

\* lines 248-261: one segment per snippet
SnippetRaises(sn) ==
    \/ Has(sn, "start") /\ FloatRaises(sn.start)
    \/ Has(sn, "duration") /\ FloatRaises(sn.duration)

SnippetSegment(sn) ==
    IF Has(sn, "text") /\ Has(sn, "start") /\ Has(sn, "duration")
    THEN Segment(Strip(sn.text), Float(sn.start), Float(sn.duration))
    ELSE Segment(Strip(IF Has(sn, "text") THEN sn.text ELSE SnippetRepr),
                 IF Has(sn, "start") THEN Float(sn.start) ELSE 0,
                 IF Has(sn, "duration") THEN Float(sn.duration) ELSE 5)

\* the index advanced only by the lines that are kept
RECURSIVE LineSegmentsCountingKept(_, _)
LineSegmentsCountingKept(lines, idx) ==
    IF lines = << >> THEN << >>
    ELSE LET line == Strip(Head(lines))
         IN IF line # << >>
            THEN << Segment(line, idx * 5, 5) >>
                 \o LineSegmentsCountingKept(Tail(lines), idx + 1)
            ELSE LineSegmentsCountingKept(Tail(lines), idx)

\* lines 265-273: enumerate(lines); i is the index of the line among all the
\* lines of the string
RECURSIVE LineSegments(_, _)
LineSegments(lines, idx) ==
    IF lines = << >> THEN << >>
    ELSE LET line == Strip(Head(lines))
             rest == LineSegments(Tail(lines), idx + 1)
         IN IF line # << >>
            THEN << Segment(line, idx * 5, 5) >> \o rest
            ELSE rest

\* lines 276-290: enumerate(transcript_data)
IsDict(entry) == ~Has(entry, "repr")

EntryRaises(entry) ==
    /\ IsDict(entry)
    /\ \/ Has(entry, "start") /\ FloatRaises(entry.start)
       \/ Has(entry, "duration") /\ FloatRaises(entry.duration)

RECURSIVE EntrySegments(_, _)
EntrySegments(entries, idx) ==
    IF entries = << >> THEN << >>
    ELSE LET entry == Head(entries)
             rest == EntrySegments(Tail(entries), idx + 1)
         IN IF IsDict(entry)
            THEN << Segment(Strip(IF Has(entry, "text") THEN entry.text ELSE << >>),
                            IF Has(entry, "start") THEN Float(entry.start)
                                                   ELSE idx * 5,
                            IF Has(entry, "duration") THEN Float(entry.duration)
                                                      ELSE 5) >> \o rest
            ELSE IF Strip(entry.repr) # << >>
                 THEN << Segment(Strip(entry.repr), idx * 5, 5) >> \o rest
                 ELSE rest

\* lines 243-299: the normalisation of the fetched value
NormalizeRaises(data) ==
    CASE data.kind = "snippets" ->
             \E k \in 1..Len(data.snippets) : SnippetRaises(data.snippets[k])
      [] data.kind = "list" ->
             \E k \in 1..Len(data.entries) : EntryRaises(data.entries[k])
      [] OTHER -> FALSE

Normalize(data) ==
    CASE data.kind = "snippets" ->
             [k \in 1..Len(data.snippets) |-> SnippetSegment(data.snippets[k])]
      [] data.kind = "str" -> LineSegments(Split(data.text, << NL >>), 0)
      [] data.kind = "list" -> EntrySegments(data.entries, 0)
      [] OTHER ->
             IF Strip(data.repr) # << >>
             THEN << Segment(Strip(data.repr), 0, 60) >>
             ELSE << >>

\* every exception wrapped, TranscriptNotAvailableError too
ReraisedAlwaysWrapped(e) ==
    Raise("TranscriptExtractionError", << "Transcript extraction failed: " >> \o e.msg)

\* lines 309-313: TranscriptNotAvailableError passes, any other exception
\* is wrapped in a TranscriptExtractionError
Reraised(e) ==
    IF e.class = "TranscriptNotAvailableError" THEN e
    ELSE Raise("TranscriptExtractionError",
               << "Transcript extraction failed: " >> \o e.msg)

\* get_transcript (lines 216-313).  apiRaises: YouTubeTranscriptApi() raises;
\* listRaises: list() raises; f: fetch() raises, or returns f.data
GetTranscript(apiRaises, listRaises, f) ==
    /\ pc = "get_transcript"
    /\ IF apiRaises
       THEN /\ pc' = "raised"
            /\ exc' = Reraised(BackendError)
            /\ UNCHANGED << calls, segments >>
       ELSE IF f.raised
       THEN /\ pc' = "raised"
            /\ exc' = Reraised(Raise("TranscriptNotAvailableError",
                                     << "No transcript available for video: " >>))
            /\ calls' = calls \o << IF listRaises THEN FailedCall("transcripts.list")
                                                  ELSE Call("transcripts.list"),
                                    FailedCall("transcripts.fetch") >>
            /\ UNCHANGED segments
       ELSE /\ calls' = calls \o << IF listRaises THEN FailedCall("transcripts.list")
                                                  ELSE Call("transcripts.list"),
                                    [op |-> "transcripts.fetch", step |-> "",
                                     bucket |-> -1, raised |-> FALSE,
                                     data |-> f.data] >>
            /\ IF NormalizeRaises(f.data)
               THEN /\ pc' = "raised"
                    /\ exc' = Reraised(Raise("TypeError", << "float() argument" >>))
                    /\ UNCHANGED segments
               ELSE IF Normalize(f.data) = << >>
               THEN /\ pc' = "raised"
                    /\ exc' = Reraised(Raise("TranscriptNotAvailableError",
                                   << "No usable transcript data found for video: " >>))
                    /\ UNCHANGED segments
               ELSE /\ pc' = "got_transcript"
                    /\ segments' = Normalize(f.data)
                    /\ UNCHANGED exc
    /\ UNCHANGED << config, clients, returned, args, video_info, num_chapters,
                    limit, i, response, summary, key_concepts, chapters,
                    main_topics, learning_objectives, questions, selected, result >>

MaxTranscriptLines == 4
MaxEntries == 2

\* the lines of a plain-string transcript: three texts, one of them padded,
\* an empty line and a line of blanks
TranscriptLines == { << "a" >>, << SP, "b", SP >>, << "c" >>, << >>, << SP >> }

\* the sequences of at most n members of a set
RECURSIVE SeqsUpTo(_, _)
SeqsUpTo(set, n) ==
    IF n = 0 THEN { << >> }
    ELSE LET shorter == SeqsUpTo(set, n - 1)
         IN shorter \cup {<< x >> \o l : x \in set, l \in shorter}

Snippets ==
    { [text |-> << SP, "a" >>, start |-> Some(0), duration |-> Some(2)],
      [text |-> << >>, start |-> Some(3), duration |-> Some(2)],
      [start |-> Some(1)],
      [text |-> << "b" >>, start |-> Nothing, duration |-> Some(2)] }

Entries ==
    { [text |-> << "a", SP >>, start |-> Some(7), duration |-> Some(2)],
      [text |-> << "b" >>],
      [start |-> Nothing],
      [repr |-> << SP, "c" >>],
      [repr |-> << SP >>] }

FetchedValues ==
    {[kind |-> "str", text |-> JoinLines(l)] :
         l \in SeqsUpTo(TranscriptLines, MaxTranscriptLines)}
    \cup {[kind |-> "snippets", snippets |-> l] : l \in SeqsUpTo(Snippets, MaxEntries)}
    \cup {[kind |-> "list", entries |-> l] : l \in SeqsUpTo(Entries, MaxEntries)}
    \cup {[kind |-> "other", repr |-> r] : r \in { << "None" >>, << SP >> }}

FetchOutcomes ==
    {[raised |-> TRUE]} \cup {[raised |-> FALSE, data |-> d] : d \in FetchedValues}

InitTranscript ==
    /\ pc = "get_transcript"
    /\ config = [default_chapters |-> 2, key_concepts_limit |-> 1,
                 summary_length |-> 300]
    /\ args = [title |-> Nothing, chapters |-> Nothing,
               key_concepts_limit |-> Nothing, summary_length |-> Nothing,
               create_notion_page |-> TRUE]
    /\ video_info = None
    /\ segments = << >>
    /\ num_chapters = 0
    /\ limit = 0
    /\ i = 0
    /\ response = None
    /\ summary = << >>
    /\ key_concepts = << >>
    /\ chapters = << >>
    /\ main_topics = << >>
    /\ learning_objectives = << >>
    /\ questions = << >>
    /\ selected = << >>
    /\ calls = << >>
    /\ exc = None
    /\ result = None
    /\ clients = Constructed
    /\ returned = << >>

GetTranscriptCall ==
    /\ pc = "get_transcript"
    /\ \E apiRaises \in BOOLEAN, listRaises \in BOOLEAN, f \in FetchOutcomes :
           GetTranscript(apiRaises, listRaises, f)

NextTranscript == GetTranscriptCall

SpecTranscript == InitTranscript /\ [][NextTranscript]_vars

-----------------------------------------------------------------------------
(* TranscriptExtractor._parse_duration and get_video_info *)

\* int() of a digit, and of a string of digits
DigitValue(d) ==
    CASE d = "0" -> 0 [] d = "1" -> 1 [] d = "2" -> 2 [] d = "3" -> 3
      [] d = "4" -> 4 [] d = "5" -> 5 [] d = "6" -> 6 [] d = "7" -> 7
      [] d = "8" -> 8 [] d = "9" -> 9

RECURSIVE IntOf(_)
IntOf(ds) ==
    IF ds = << >> THEN 0
    ELSE IntOf(SubSeq(ds, 1, Len(ds) - 1)) * 10 + DigitValue(ds[Len(ds)])

\* re.search(r'(\d+)X', s) for a unit letter X, from position k on, run
\* being the digits met since the last character that is not one: the
\* leftmost run of digits that the unit follows, or Nothing
RECURSIVE SearchFrom(_, _, _, _)
SearchFrom(s, unit, k, run) ==
    IF k > Len(s) THEN Nothing
    ELSE IF s[k] \in Digits THEN SearchFrom(s, unit, k + 1, Append(run, s[k]))
    ELSE IF s[k] = unit /\ run # << >> THEN Some(run)
    ELSE SearchFrom(s, unit, k + 1, << >>)

\* the search for the seconds done with the minutes' letter
ComponentSearchingM(s, unit) ==
    LET found == SearchFrom(s, IF unit = "S" THEN "M" ELSE unit, 1, << >>)
    IN IF Contains(s, << unit >>) /\ found # Nothing THEN IntOf(found[1]) ELSE 0

\* lines 183-198: `if 'X' in s`, the search, int() of the group; else 0
Component(s, unit) ==
    LET found == SearchFrom(s, unit, 1, << >>)
    IN IF Contains(s, << unit >>) /\ found # Nothing THEN IntOf(found[1]) ELSE 0

_parse_duration(duration_str) ==
    LET s == Replace(duration_str, << "P", "T" >>)
    IN Component(s, "H") * 3600 + Component(s, "M") * 60 + Component(s, "S")

\* no operation of the notetaker is running: none was called yet, or
\* process_video has returned
Between == pc \in {"idle", "returned"}

\* get_video_info of the notetaker (lecture_notetaker.py 151-161) and of the
\* extractor (transcript_extractor.py 117-164): nothing is caught by the
\* notetaker, so the caller gets the VideoInfo or the exception
GetVideoInfo(o) ==
    /\ Between
    /\ CASE o.kind = "bad_url" ->
              /\ returned' = Append(returned,
                     [op |-> "get_video_info", raised |-> TRUE,
                      exc |-> Raise("TranscriptExtractionError",
                                    << "Could not extract video ID from URL: " >>)])
              /\ UNCHANGED calls
         [] o.kind = "api_error" ->
              /\ returned' = Append(returned,
                     [op |-> "get_video_info", raised |-> TRUE,
                      exc |-> Raise("TranscriptExtractionError",
                                    << "Failed to get video info: " >>
                                    \o BackendError.msg)])
              /\ calls' = Append(calls, FailedCall("videos.list"))
         [] o.kind = "not_found" ->
              /\ returned' = Append(returned,
                     [op |-> "get_video_info", raised |-> TRUE,
                      exc |-> Raise("VideoNotFoundError", << "Video not found: " >>)])
              /\ calls' = Append(calls, Call("videos.list"))
         [] o.kind = "ok" ->
              /\ returned' = Append(returned,
                     [op |-> "get_video_info", raised |-> FALSE,
                      value |-> [id |-> << "v" >>, title |-> o.item.title,
                                 duration |-> _parse_duration(o.item.duration)]])
              /\ calls' = Append(calls,
                     [op |-> "videos.list", step |-> "", bucket |-> -1,
                      raised |-> FALSE, item |-> o.item])
    /\ UNCHANGED << pc, config, clients, args, video_info, segments, num_chapters,
                    limit, i, response, summary, key_concepts, chapters,
                    main_topics, learning_objectives, questions, selected, exc,
                    result >>

MaxDigits == 2

\* the digits the durations are written with, and the numbers of at most
\* MaxDigits of them
DurationDigits == {"0", "2", "3"}
Numbers == SeqsUpTo(DurationDigits, MaxDigits) \ { << >> }

\* 'PT', then the components that are there, each a number and its letter
DurationString(h, m, s) ==
    << "P", "T" >> \o (IF h = Nothing THEN << >> ELSE h[1] \o << "H" >>)
                   \o (IF m = Nothing THEN << >> ELSE m[1] \o << "M" >>)
                   \o (IF s = Nothing THEN << >> ELSE s[1] \o << "S" >>)

Components == {Nothing} \cup {Some(n) : n \in Numbers}

DurationStrings ==
    {DurationString(h, m, s) : h \in Components, m \in Components, s \in Components}

VideoInfoOutcomes(durations) ==
    {[kind |-> k] : k \in {"bad_url", "api_error", "not_found"}}
    \cup {[kind |-> "ok", item |-> [title |-> << "Fetched" >>, duration |-> d]] :
             d \in durations}

InitIdle ==
    /\ pc = "idle"
    /\ config = [default_chapters |-> 2, key_concepts_limit |-> 1,
                 summary_length |-> 300]
    /\ args = None
    /\ video_info = None
    /\ segments = << >>
    /\ num_chapters = 0
    /\ limit = 0
    /\ i = 0
    /\ response = None
    /\ summary = << >>
    /\ key_concepts = << >>
    /\ chapters = << >>
    /\ main_topics = << >>
    /\ learning_objectives = << >>
    /\ questions = << >>
    /\ selected = << >>
    /\ calls = << >>
    /\ exc = None
    /\ result = None
    /\ clients = Constructed
    /\ returned = << >>

\* one call of get_video_info, on a video of any duration
GetVideoInfoAny ==
    /\ pc = "idle" /\ returned = << >>
    /\ \E o \in VideoInfoOutcomes(DurationStrings) : GetVideoInfo(o)

NextDuration == GetVideoInfoAny

SpecDuration == InitIdle /\ [][NextDuration]_vars

-----------------------------------------------------------------------------
(* NotionClient.create_lecture_notes on any ProcessedContent *)

MaxItems == 2

PageSummaries == { << >>, << SP, NL >>, << "S" >>, << "S", NL, NL, SP, "T" >> }
PageObjectives == SeqsUpTo({ << "o" >> }, MaxItems)
PageTopics == SeqsUpTo({ << "t" >> }, MaxItems)
PageQuestions == SeqsUpTo({ << "q", "?" >> }, MaxItems)
PageConcepts ==
    { << >>,
      << [term |-> << "A" >>, definition |-> << "B" >>, importance |-> << "C" >>,
          timestamp |-> None] >> }
PageChapters ==
    { << >>,
      << FallbackChapter(0, Secs(0), Secs(75)) >>,
      << [title |-> << "T" >>, start_time |-> Frac(200, 3), end_time |-> Secs(200),
          summary |-> << "U" >>, key_points |-> << >>] >> }

InitPage ==
    /\ pc = "publish"
    /\ config = [default_chapters |-> 2, key_concepts_limit |-> 1,
                 summary_length |-> 300]
    /\ args = [title |-> Nothing, chapters |-> Nothing,
               key_concepts_limit |-> Nothing, summary_length |-> Nothing,
               create_notion_page |-> TRUE]
    /\ video_info = [id |-> << "v" >>, title |-> << "Fetched" >>, duration |-> 200]
    /\ segments = << Segment(<< "a" >>, 0, 5) >>
    /\ num_chapters = 2
    /\ limit = 1
    /\ i = 2
    /\ response = None
    /\ summary \in PageSummaries
    /\ key_concepts \in PageConcepts
    /\ chapters \in PageChapters
    /\ main_topics \in PageTopics
    /\ learning_objectives \in PageObjectives
    /\ questions \in PageQuestions
    /\ selected = << >>
    /\ calls = << >>
    /\ exc = None
    /\ result = None
    /\ clients = Constructed
    /\ returned = << >>

NextPage ==
    \/ PublishCall
    \/ HandleException

SpecPage == InitPage /\ [][NextPage]_vars

-----------------------------------------------------------------------------
(* LectureNotetaker.test_connections and process_playlist *)

\* a call that constructs a client handle, or queries through one
ClientCall(op, ok) == [op |-> op, step |-> "", bucket |-> -1, raised |-> ~ok]

\* the Notion client constructed again as well
ReinitializedAll(c, yt, ai) ==
    [youtube_service |-> c.youtube_service + (IF yt THEN 1 ELSE 0),
     model |-> c.model + (IF ai THEN 1 ELSE 0),
     client |-> c.client + 1]

\* lines 173 and 182: _init_youtube_service() and _init_model() build a new
\* handle each, unless the construction raises; test_connection() of the
\* Notion client (notion_client.py 574-587) queries through the handle it has
Reinitialized(c, yt, ai) ==
    [youtube_service |-> c.youtube_service + (IF yt THEN 1 ELSE 0),
     model |-> c.model + (IF ai THEN 1 ELSE 0),
     client |-> c.client]

\* the second check not made once the first has failed
ConnectionResultsUntilFailure(yt, ai, notion) ==
    [youtube |-> yt, google_ai |-> yt /\ ai, notion |-> notion]

\* lines 169-200: results, one entry per service
ConnectionResults(yt, ai, notion) ==
    [youtube |-> yt, google_ai |-> ai, notion |-> notion]

\* test_connections; yt, ai: the construction succeeds; notion: the
\* database query succeeds
TestConnections(yt, ai, notion) ==
    /\ Between
    /\ calls' = calls \o << ClientCall("discovery.build", yt),
                            ClientCall("GenerativeModel", ai),
                            ClientCall("databases.retrieve", notion) >>
    /\ clients' = Reinitialized(clients, yt, ai)
    /\ returned' = Append(returned,
           [op |-> "test_connections", raised |-> FALSE,
            value |-> ConnectionResults(yt, ai, notion)])
    /\ UNCHANGED << pc, config, args, video_info, segments, num_chapters, limit,
                    i, response, summary, key_concepts, chapters, main_topics,
                    learning_objectives, questions, selected, exc, result >>

\* one failed NoteResult per requested video
PlaylistResultPerVideo(playlist_url, max_videos) ==
    IF max_videos = Nothing THEN << >>
    ELSE [k \in 1..max_videos[1] |->
             NoteResult(ErrorVideoInfo, EmptyContent, Nothing, FALSE,
                        Some(<< "not implemented" >>))]

\* lines 146-149
PlaylistResult(playlist_url, max_videos) == << >>

\* process_playlist
ProcessPlaylist(playlist_url, max_videos) ==
    /\ Between
    /\ returned' = Append(returned,
           [op |-> "process_playlist", raised |-> FALSE,
            args |-> [playlist_url |-> playlist_url, max_videos |-> max_videos],
            value |-> PlaylistResult(playlist_url, max_videos)])
    /\ UNCHANGED << pc, config, clients, args, video_info, segments, num_chapters,
                    limit, i, response, summary, key_concepts, chapters,
                    main_topics, learning_objectives, questions, selected, calls,
                    exc, result >>

-----------------------------------------------------------------------------
(* Any sequence of public operations on one notetaker *)

\* the number of calls of get_video_info, process_playlist, test_connections
MaxOps == 2

MoreOps == Len(returned) < MaxOps

PlaylistUrls == { << "https://youtube.com/playlist?list=L" >>, << >> }

TestConnectionsCall ==
    /\ MoreOps
    /\ \E yt \in BOOLEAN, ai \in BOOLEAN, notion \in BOOLEAN :
           TestConnections(yt, ai, notion)

ProcessPlaylistCall ==
    /\ MoreOps
    /\ \E u \in PlaylistUrls, m \in {Nothing, Some(2)} : ProcessPlaylist(u, m)

GetVideoInfoCall ==
    /\ MoreOps
    /\ \E o \in VideoInfoOutcomes({ << "P", "T", "2", "M" >> }) : GetVideoInfo(o)

\* process_video, with or without publishing, on a video whose transcript
\* is missing or there, every generation call answered
StartOne ==
    \E publish \in BOOLEAN :
        Start([title |-> Nothing, chapters |-> Nothing,
               key_concepts_limit |-> Nothing, summary_length |-> Nothing,
               create_notion_page |-> publish])

ExtractOne ==
    \E o \in {x \in ExtractOutcomes :
                 x.kind = "no_transcript"
                 \/ (x.kind = "ok" /\ x.video.info.id = << "v1" >>)} : Extract(o)

SummaryAnswered == \E t \in SummaryResponses : GenerateSummary(Returned(t))
KeyConceptsAnswered == \E t \in KeyConceptResponses : ExtractKeyConcepts(Returned(t))
ChapterAnswered == ChapterStep(Returned(FullChapter))
TopicsAnswered == \E t \in TopicResponses : ExtractMainTopics(Returned(t))
ObjectivesAnswered ==
    \E t \in ObjectiveResponses : GenerateLearningObjectives(Returned(t))
QuestionsAnswered == \E t \in QuestionResponses : GenerateQuestions(Returned(t))

NextOperations ==
    \/ TestConnectionsCall
    \/ ProcessPlaylistCall
    \/ GetVideoInfoCall
    \/ StartOne
    \/ ExtractOne
    \/ SummaryAnswered
    \/ KeyConceptsAnswered
    \/ EnterChapters
    \/ ChapterAnswered
    \/ TopicsAnswered
    \/ ObjectivesAnswered
    \/ QuestionsAnswered
    \/ PublishCall
    \/ HandleException

SpecOperations == InitIdle /\ [][NextOperations]_vars

-----------------------------------------------------------------------------
(* Config (utils/config.py) *)

\* os.getenv(name, default); the environment gives each variable as unset
\* (Nothing) or set to a text
Getenv(env, name, default) ==
    IF env[name] = Nothing THEN default ELSE env[name][1]

\* int(text) raises ValueError on a text that is not a number
IntRaises(text) ==
    text = << >> \/ \E k \in 1..Len(text) : text[k] \notin Digits

\* Config.from_env: the int() conversions that can fail (CHUNK_SIZE and
\* MAX_RETRIES are converted the same way and are left at their defaults)
FromEnvRaises(env) ==
    \/ IntRaises(Getenv(env, "SUMMARY_LENGTH", << "3", "0", "0" >>))
    \/ IntRaises(Getenv(env, "DEFAULT_CHAPTERS", << "5" >>))
    \/ IntRaises(Getenv(env, "KEY_CONCEPTS_LIMIT", << "1", "0" >>))

from_env(env) ==
    [youtube_api_key |-> Getenv(env, "YOUTUBE_API_KEY", << >>),
     google_ai_api_key |-> Getenv(env, "GOOGLE_AI_API_KEY", << >>),
     notion_token |-> Getenv(env, "NOTION_TOKEN", << >>),
     notion_database_id |-> Getenv(env, "NOTION_DATABASE_ID", << >>),
     summary_length |-> IntOf(Getenv(env, "SUMMARY_LENGTH", << "3", "0", "0" >>)),
     default_chapters |-> IntOf(Getenv(env, "DEFAULT_CHAPTERS", << "5" >>)),
     key_concepts_limit |->
         IntOf(Getenv(env, "KEY_CONCEPTS_LIMIT", << "1", "0" >>))]

\* ', '.join(parts)
RECURSIVE JoinCommas(_)
JoinCommas(parts) ==
    IF parts = << >> THEN << >>
    ELSE IF Len(parts) = 1 THEN << parts[1] >>
    ELSE << parts[1], ", " >> \o JoinCommas(Tail(parts))

\* validate's missing_keys: the names of the empty required values, in the
\* order of the four tests
MissingKeys(cfg) ==
    (IF cfg.youtube_api_key = << >> THEN << "YOUTUBE_API_KEY" >> ELSE << >>)
    \o (IF cfg.google_ai_api_key = << >> THEN << "GOOGLE_AI_API_KEY" >> ELSE << >>)
    \o (IF cfg.notion_token = << >> THEN << "NOTION_TOKEN" >> ELSE << >>)
    \o (IF cfg.notion_database_id = << >> THEN << "NOTION_DATABASE_ID" >> ELSE << >>)

\* Config.validate: Nothing when it returns, Some(e) when it raises e
validate(cfg) ==
    IF MissingKeys(cfg) # << >>
    THEN Some(Raise("ValueError",
                    << "Missing required environment variables: " >>
                    \o JoinCommas(MissingKeys(cfg))))
    ELSE Nothing

-----------------------------------------------------------------------------
(* The command line (cli/main.py) *)

\* main's dispatch (lines 137-151): the first of the modes that was asked for
Mode(ns) ==
    IF ns.test_connections THEN "test_connections"
    ELSE IF ns.info # Nothing /\ ns.info[1] # << >> THEN "info"
    ELSE IF ns.url # Nothing /\ ns.url[1] # << >> THEN "url"
    ELSE IF ns.playlist # Nothing /\ ns.playlist[1] # << >> THEN "playlist"
    ELSE "none"

\* the handlers of main (lines 153-161): Some(code), or Nothing when no
\* handler matches and the exception leaves main
MainHandlerCode(e) ==
    IF e.class = "KeyboardInterrupt" THEN Some(130)
    ELSE IF e.class \in ExceptionClasses THEN Some(1)
    ELSE Nothing

\* a bare except in the mode functions
ModeCaughtAll(e) == TRUE

\* `except Exception` of test_connections, get_video_info, process_video
\* and process_playlist of the command line
ModeCaught(e) == e.class \in ExceptionClasses

\* what main hands to the command line for an exception raised in a mode
\* function
CodeOnException(e) == IF ModeCaught(e) THEN Some(1) ELSE MainHandlerCode(e)

\* main returns code, or lets the exception e escape
Exit(e, code) ==
    /\ pc' = "exited"
    /\ returned' = Append(returned,
           IF code = Nothing
           THEN [op |-> "main", raised |-> TRUE, exc |-> e]
           ELSE [op |-> "main", raised |-> FALSE, value |-> code[1]])

\* the arguments of notetaker.process_video (lines 225-233)
ProcessVideoArgs(ns) ==
    [title |-> ns.title, chapters |-> ns.chapters,
     key_concepts_limit |-> ns.key_concepts,
     summary_length |-> ns.summary_length,
     create_notion_page |-> ~ns.no_notion]

\* lines 121-122: parse_args hands the namespace ns to main
ParseArgs(ns) ==
    /\ pc = "main"
    /\ pc' = "load"
    /\ args' = ns
    /\ UNCHANGED << config, clients, video_info, segments, num_chapters, limit,
                    i, response, summary, key_concepts, chapters, main_topics,
                    learning_objectives, questions, selected, calls, exc,
                    result, returned >>

\* lines 127-134: Config.from_env() in the environment env; a failed
\* conversion reaches the handlers of main
LoadConfig(env) ==
    /\ pc = "load"
    /\ IF FromEnvRaises(env)
       THEN /\ exc' = Raise("ValueError", << "invalid literal for int()" >>)
            /\ Exit(exc', MainHandlerCode(exc'))
            /\ UNCHANGED config
       ELSE /\ config' = from_env(env)
            /\ pc' = "dispatch"
            /\ UNCHANGED << exc, returned >>
    /\ UNCHANGED << clients, args, video_info, segments, num_chapters, limit, i,
                    response, summary, key_concepts, chapters, main_topics,
                    learning_objectives, questions, selected, calls, result >>

\* lines 137-151, and the first statement of the mode function:
\* LectureNotetaker(config), whose __init__ validates the configuration and
\* then builds the three clients (lecture_notetaker.py 33-45)
Construct ==
    /\ pc = "dispatch"
    /\ IF Mode(args) = "none"
       THEN /\ Exit(exc, Some(1))
            /\ UNCHANGED << exc, clients >>
       ELSE IF validate(config) # Nothing
       THEN /\ exc' = validate(config)[1]
            /\ Exit(exc', CodeOnException(exc'))
            /\ UNCHANGED clients
       ELSE /\ pc' = "idle"
            /\ clients' = Constructed
            /\ UNCHANGED << exc, returned >>
    /\ UNCHANGED << config, args, video_info, segments, num_chapters, limit, i,
                    response, summary, key_concepts, chapters, main_topics,
                    learning_objectives, questions, selected, calls, result >>

\* the mode functions call the notetaker
CliTestConnections ==
    /\ pc = "idle" /\ returned = << >> /\ Mode(args) = "test_connections"
    /\ \E yt \in BOOLEAN, ai \in BOOLEAN, notion \in BOOLEAN :
           TestConnections(yt, ai, notion)

CliGetVideoInfo ==
    /\ pc = "idle" /\ returned = << >> /\ Mode(args) = "info"
    /\ \E o \in VideoInfoOutcomes({ << "P", "T", "2", "M" >> }) : GetVideoInfo(o)

CliProcessPlaylist ==
    /\ pc = "idle" /\ returned = << >> /\ Mode(args) = "playlist"
    /\ ProcessPlaylist(args.playlist[1], Nothing)

CliProcessVideo ==
    /\ pc = "idle" /\ returned = << >> /\ Mode(args) = "url"
    /\ Start(ProcessVideoArgs(args))

\* all(results.values()) in test_connections (lines 175-188)
AllGood(results) == results.youtube /\ results.google_ai /\ results.notion

\* the number of failed results of a playlist (lines 280-287)
FailedCount(results) == Cardinality({k \in 1..Len(results) : ~results[k].success})

\* the exit code of test_connections, get_video_info and process_playlist,
\* from what the notetaker handed back
CodeOfAnswer(r) ==
    IF r.raised THEN CodeOnException(r.exc)
    ELSE IF r.op = "test_connections"
         THEN Some(IF AllGood(r.value) THEN 0 ELSE 1)
    ELSE IF r.op = "process_playlist"
         THEN Some(IF FailedCount(r.value) = 0 THEN 0 ELSE 1)
    ELSE Some(0)

ModeReturns ==
    /\ pc = "idle" /\ Len(returned) = 1
    /\ Exit(IF returned[1].raised THEN returned[1].exc ELSE exc,
            CodeOfAnswer(returned[1]))
    /\ UNCHANGED << config, clients, args, video_info, segments, num_chapters,
                    limit, i, response, summary, key_concepts, chapters,
                    main_topics, learning_objectives, questions, selected, calls,
                    exc, result >>

\* process_video of the command line, after notetaker.process_video
\* (lines 235-267): 1 for a failed NoteResult, 0 otherwise; an exception
\* that process_video let through goes to the handlers
ProcessVideoReturns ==
    /\ pc \in {"returned", "propagated"} /\ returned = << >>
    /\ IF pc = "returned"
       THEN Exit(exc, Some(IF result.success THEN 0 ELSE 1))
       ELSE Exit(exc, CodeOnException(exc))
    /\ UNCHANGED << config, clients, args, video_info, segments, num_chapters,
                    limit, i, response, summary, key_concepts, chapters,
                    main_topics, learning_objectives, questions, selected, calls,
                    exc, result >>

\* what parse_args hands to main
Namespaces ==
    [test_connections : BOOLEAN,
     info : {Nothing, Some(<< "https://youtu.be/v1" >>)},
     url : {Nothing, Some(<< "https://youtu.be/v1" >>)},
     playlist : {Nothing, Some(<< "https://youtube.com/playlist?list=L" >>)},
     title : {Nothing}, summary_length : {Nothing}, chapters : {Nothing},
     key_concepts : {Nothing}, no_notion : BOOLEAN]

\* the environment of the process
EnvValues == {Nothing, Some(<< >>), Some(<< "k" >>)}

Environments ==
    [YOUTUBE_API_KEY : EnvValues, GOOGLE_AI_API_KEY : EnvValues,
     NOTION_TOKEN : EnvValues, NOTION_DATABASE_ID : EnvValues,
     DEFAULT_CHAPTERS : {Nothing, Some(<< "2" >>), Some(<< "x" >>)},
     KEY_CONCEPTS_LIMIT : {Nothing}, SUMMARY_LENGTH : {Nothing}]

\* main is entered: nothing is constructed yet
InitCli ==
    /\ pc = "main"
    /\ config = None
    /\ args = None
    /\ video_info = None
    /\ segments = << >>
    /\ num_chapters = 0
    /\ limit = 0
    /\ i = 0
    /\ response = None
    /\ summary = << >>
    /\ key_concepts = << >>
    /\ chapters = << >>
    /\ main_topics = << >>
    /\ learning_objectives = << >>
    /\ questions = << >>
    /\ selected = << >>
    /\ calls = << >>
    /\ exc = None
    /\ result = None
    /\ clients = [youtube_service |-> 0, model |-> 0, client |-> 0]
    /\ returned = << >>

ParseArgsCall == \E ns \in Namespaces : ParseArgs(ns)
LoadConfigCall == \E env \in Environments : LoadConfig(env)

\* every generation call raises, or returns a text that no parser keeps
\* anything of
CliOutcomes == {Raised, Returned(<< "x" >>)}

CliGeneration ==
    \E o \in CliOutcomes :
        \/ GenerateSummary(o)
        \/ ExtractKeyConcepts(o)
        \/ ChapterStep(o)
        \/ ExtractMainTopics(o)
        \/ GenerateLearningObjectives(o)
        \/ GenerateQuestions(o)

NextCli ==
    \/ ParseArgsCall
    \/ LoadConfigCall
    \/ Construct
    \/ CliTestConnections
    \/ CliGetVideoInfo
    \/ CliProcessPlaylist
    \/ CliProcessVideo
    \/ ModeReturns
    \/ ExtractCall
    \/ CliGeneration
    \/ EnterChapters
    \/ PublishCall
    \/ HandleException
    \/ ProcessVideoReturns

SpecCli == InitCli /\ [][NextCli]_vars

\* main runs on one thread and every call it makes returns or raises: a
\* step that can be taken is taken
SpecCliFair == SpecCli /\ WF_vars(NextCli)

-----------------------------------------------------------------------------
(* _parse_chapter and _generate_learning_objectives on responses with      *)
(* bullets                                                                 *)

MaxBulletLines == 3

\* a chapter response: the title and the summary, then lines that are a
\* bullet, a bullet with '- ' inside its text, the KEY_POINTS: marker or
\* another line
ChapterHeader == TITLE \o << SP, "T", NL >> \o SUMMARY \o << SP, "S", NL >>
KeyPointPieces ==
    { Bullet \o << "a", NL >>,
      Bullet \o << "b", SP >> \o Bullet \o << "c", NL >>,
      KEY_POINTS \o << NL >>,
      << SP, "x", NL >> }

\* an objectives response: a bullet with '- ' inside its text, a
\* 'Students will' line with '- ' inside, a line that opens with '-' and no
\* blank, another line
BulletObjectivePieces ==
    { Bullet \o << "p", SP >> \o Bullet \o << "q", NL >>,
      << "Students will", SP, "r", SP >> \o Bullet \o << "s", NL >>,
      << "-", "t", NL >>,
      << "u", NL >> }

InitBullets ==
    \/ InChapters([id |-> << "v" >>, title |-> << "Fetched" >>, duration |-> 600],
                  << Segment(<< "a" >>, 0, 5) >>, 1)
    \/ InLists("objectives")

KeyPointsCallAny ==
    /\ pc = "chapter_loop"
    /\ \E t \in TextsOf(KeyPointPieces, MaxBulletLines) :
           ChapterStep(Returned(ChapterHeader \o t))

BulletObjectivesCallAny ==
    /\ pc = "objectives" /\ calls = << >>
    /\ \E t \in TextsOf(BulletObjectivePieces, MaxBulletLines) :
           GenerateLearningObjectives(Returned(t))

NextBullets ==
    \/ EnterChapters
    \/ KeyPointsCallAny
    \/ BulletObjectivesCallAny

SpecBullets == InitBullets /\ [][NextBullets]_vars

-----------------------------------------------------------------------------
(* Helpers of the properties *)

\* the positions of the log entries of an operation
Positions(ops) == {k \in 1..Len(calls) : calls[k].op \in ops}
ExtractionOps == {"videos.list", "transcripts.list", "transcripts.fetch"}

\* the positions of the generation calls of a step (and bucket)
GenerationsOf(step, bucket) ==
    {k \in Positions({"generate"}) :
        calls[k].step = step /\ calls[k].bucket = bucket}

ExtractionErrors ==
    {"TranscriptExtractionError", "VideoNotFoundError",
     "TranscriptNotAvailableError"}

-----------------------------------------------------------------------------
(* C1 *)

\* C1: process_video never raises an Exception to its caller.  Once an
\* exception of a class below Exception is in flight - raised by extraction,
\* by processing or by publishing - the run is in the handler or has
\* returned, never propagated; and what it returns is the failed NoteResult:
\* success false, error_message the message of that exception, the
\* placeholder VideoInfo (id "", title "Error", duration 0), an empty summary
\* and five empty lists.
C1_ExceptionsBecomeFailedResult ==
    (exc # None /\ exc.class \in ExceptionClasses) =>
        /\ pc \in {"except", "returned"}
        /\ pc = "returned" =>
            /\ result # None
            /\ result.success = FALSE
            /\ result.error_message = Some(exc.msg)
            /\ result.video_info.id = << >>
            /\ result.video_info.title = << "Error" >>
            /\ result.video_info.duration = 0
            /\ result.processed_content.summary = << >>
            /\ result.processed_content.key_concepts = << >>
            /\ result.processed_content.chapters = << >>
            /\ result.processed_content.main_topics = << >>
            /\ result.processed_content.learning_objectives = << >>
            /\ result.processed_content.questions = << >>

\* a run that returned after its publishing call raised
C1_Witness ==
    /\ pc = "returned"
    /\ exc # None
    /\ exc.class = "NotionAPIError"
    /\ result.success = FALSE
    /\ result.error_message = Some(<< "Page creation failed: ", "backend error" >>)

-----------------------------------------------------------------------------
(* C2 *)

\* C2: the steps of a run occur in the order extract, process, publish: in
\* the log every extraction call precedes every generation call and every
\* generation call precedes the page-creation call.  The page-creation call
\* is issued at most once, and only when create_notion_page is true, the
\* extraction completed (the transcript fetch returned) and the processing
\* completed (its last step, the questions call, was made and no exception
\* was in flight before the publishing call); when extraction fails nothing
\* is generated and nothing is published.
C2_ExtractProcessPublish ==
    LET extractions == Positions(ExtractionOps)
        generations == Positions({"generate"})
        creations == Positions({"pages.create"})
    IN /\ \A e \in extractions, g \in generations : e < g
       /\ \A g \in generations, c \in creations : g < c
       /\ \A e \in extractions, c \in creations : e < c
       /\ Cardinality(creations) <= 1
       /\ generations # {} =>
            \E e \in extractions :
                calls[e].op = "transcripts.fetch" /\ ~calls[e].raised
       /\ creations # {} =>
            /\ args.create_notion_page
            /\ video_info # None
            /\ \E e \in extractions :
                calls[e].op = "transcripts.fetch" /\ ~calls[e].raised
            /\ GenerationsOf("questions", -1) # {}
            /\ exc # None => exc.class = "NotionAPIError"
       /\ (exc # None /\ exc.class \in ExtractionErrors) =>
            generations = {} /\ creations = {}

\* a run that extracted, processed and published
C2_Witness ==
    /\ pc = "returned"
    /\ result.success
    /\ Positions({"pages.create"}) # {}
    /\ Positions({"generate"}) # {}

-----------------------------------------------------------------------------
(* C3 *)

\* segment k starts in bucket b of n > 0 buckets of a video of d seconds
StartsInBucket(k, b, d, n) ==
    /\ b * d <= segments[k].start * n
    /\ segments[k].start * n < (b + 1) * d

\* bucket b has a segment with something other than white space in it
NonBlankBucket(b, d, n) ==
    \E k \in 1..Len(segments) :
        /\ StartsInBucket(k, b, d, n)
        /\ \E j \in 1..Len(segments[k].text) : segments[k].text[j] \notin Whitespace

\* the generation call of a step (and bucket) was made and raised
RaisedIn(step, bucket) ==
    \E k \in GenerationsOf(step, bucket) : calls[k].raised

\* process_transcript was called and is over
ProcessingOver ==
    video_info # None /\ pc \in {"publish", "except", "returned", "propagated"}

\* whatever generation calls raised, process_transcript made every call
\* once, did not raise, and returned the degraded content; and the run that
\* goes on to publish publishes that content and reports success
C3_AllCallsMadeAndPublished ==
    /\ exc # None => exc.class = "NotionAPIError"
    /\ \A step \in {"summary", "key_concepts", "topics", "objectives", "questions"} :
           Cardinality(GenerationsOf(step, -1)) = 1
    /\ \A b \in 0..(num_chapters - 1) :
           Cardinality(GenerationsOf("chapter", b)) =
               IF NonBlankBucket(b, video_info.duration, num_chapters) THEN 1 ELSE 0
    /\ RaisedIn("summary", -1) =>
           summary = << "Summary generation failed. Please try again." >>
    /\ RaisedIn("key_concepts", -1) => key_concepts = << >>
    /\ RaisedIn("topics", -1) => main_topics = << >>
    /\ RaisedIn("objectives", -1) => learning_objectives = << >>
    /\ RaisedIn("questions", -1) => questions = << >>
    /\ \A b \in 0..(num_chapters - 1) :
           RaisedIn("chapter", b) =>
               \E c \in 1..Len(chapters) :
                   /\ chapters[c].title = << "Chapter ", ToString(b + 1) >>
                   /\ chapters[c].summary = << "Content summary not available." >>
    /\ (pc = "returned" /\ exc = None) =>
           /\ result.success
           /\ result.error_message = Nothing
           /\ result.processed_content = Content
           /\ args.create_notion_page =>
                \E k \in Positions({"pages.create"}) :
                    /\ ~calls[k].raised
                    /\ calls[k].content = Content
                    /\ result.notion_url # Nothing

-----------------------------------------------------------------------------
(* C4 *)

\* the segments that start in bucket b, in the order of the transcript
StartingIn(b, d, n) ==
    SelectSeq([k \in 1..Len(segments) |-> k],
              LAMBDA k : StartsInBucket(k, b, d, n))

\* the buckets whose chapter_segments hold segment k
BucketsOf(k) ==
    {b \in 1..Len(selected) : \E j \in 1..Len(selected[b]) : selected[b][j] = k}

\* C4: with num_chapters = N >= 1 and duration D, the chapter_segments of
\* bucket i are exactly the segments whose start lies in
\* [i*D/N, min((i+1)*D/N, D)), whatever their duration; and once the loop
\* is over every segment with 0 <= start < D is in exactly one bucket and
\* every segment with start < 0 or start >= D is in none.
C4_BucketsByStartOnly ==
    (num_chapters >= 1 /\ pc \in {"chapter_loop", "topics"}) =>
        LET d == video_info.duration
            n == num_chapters
        IN /\ \A b \in 1..Len(selected) :
                  selected[b] = StartingIn(b - 1, d, n)
           /\ pc = "topics" =>
                  /\ Len(selected) = n
                  /\ \A k \in 1..Len(segments) :
                         Cardinality(BucketsOf(k)) =
                             IF 0 <= segments[k].start /\ segments[k].start < d
                             THEN 1 ELSE 0

\* three buckets over 6 seconds (boundaries at 2 and 4): a segment that
\* starts at 1 and lasts beyond the boundary at 2 is in the first bucket
\* only, and one that starts on the boundary at 4 is in the third only
C4_Witness ==
    /\ pc = "topics"
    /\ num_chapters = 3
    /\ video_info.duration = 6
    /\ Len(segments) = 2
    /\ segments[1].start = 1 /\ segments[1].start + segments[1].duration > 2
    /\ segments[2].start = 4
    /\ selected = << << 1 >>, << >>, << 2 >> >>

-----------------------------------------------------------------------------
(* C5 *)

\* the chapters of the list that start where bucket b starts
ChaptersAt(b, d, n) ==
    {c \in 1..Len(chapters) :
        chapters[c].start_time.num * n = b * d * chapters[c].start_time.den}

TimeIs(t, seconds) == t.num = seconds * t.den

IsFallback(ch, b, d, n) ==
    /\ ch.title = << "Chapter ", ToString(b + 1) >>
    /\ ch.start_time.num * n = b * d * ch.start_time.den
    /\ ch.end_time.num * n = (b + 1) * d * ch.end_time.den
    /\ ch.summary = << "Content summary not available." >>
    /\ ch.key_points = << << "Key points not available." >> >>

\* C5: for every bucket with non-blank text whose generation call raised,
\* the list holds exactly one chapter for the bucket, the fallback: title
\* "Chapter <i+1>", the bucket's start_time and end_time, the placeholder
\* summary and the one placeholder key point.  So a video of 600 seconds
\* with 2 chapters, segments in both halves and a backend whose chapter
\* calls both failed ends with exactly 2 fallback chapters, 0-300 and
\* 300-600.
C5_FallbackPerFailedBucket ==
    (num_chapters >= 1 /\ video_info # None) =>
        LET d == video_info.duration
            n == num_chapters
        IN /\ \A b \in 0..(n - 1) :
                  RaisedIn("chapter", b) =>
                      /\ NonBlankBucket(b, d, n)
                      /\ Cardinality(ChaptersAt(b, d, n)) = 1
                      /\ \A c \in ChaptersAt(b, d, n) :
                             IsFallback(chapters[c], b, d, n)
           /\ ( /\ d = 600 /\ n = 2
                /\ NonBlankBucket(0, d, n) /\ NonBlankBucket(1, d, n)
                /\ RaisedIn("chapter", 0) /\ RaisedIn("chapter", 1) ) =>
                  /\ Len(chapters) = 2
                  /\ chapters[1].title = << "Chapter ", "1" >>
                  /\ TimeIs(chapters[1].start_time, 0)
                  /\ TimeIs(chapters[1].end_time, 300)
                  /\ chapters[2].title = << "Chapter ", "2" >>
                  /\ TimeIs(chapters[2].start_time, 300)
                  /\ TimeIs(chapters[2].end_time, 600)
                  /\ \A c \in 1..2 :
                         /\ chapters[c].summary = PlaceholderSummary
                         /\ chapters[c].key_points = << PlaceholderPoint >>

\* the scenario: 600 seconds, 2 chapters, both chapter calls raised
C5_Witness ==
    /\ pc = "topics"
    /\ video_info.duration = 600
    /\ num_chapters = 2
    /\ RaisedIn("chapter", 0) /\ RaisedIn("chapter", 1)
    /\ Len(chapters) = 2

-----------------------------------------------------------------------------
(* C6 *)

\* C6: a bucket whose selected text is empty after trimming (every segment
\* that starts in it has nothing but white space) gets no chapter, neither
\* parsed nor fallback, no generation call and no delay, whatever the
\* backend would have answered: there is no generation call for it in the
\* log, no chapter starts where it starts, the list has at most one chapter
\* per non-blank bucket, and every delay in the log directly follows a
\* chapter call that returned.
C6_BlankBucketSkipped ==
    (num_chapters >= 1 /\ pc \in {"chapter_loop", "topics"}) =>
        LET d == video_info.duration
            n == num_chapters
            done == 0..(Len(selected) - 1)
        IN /\ \A b \in done :
                  ~NonBlankBucket(b, d, n) =>
                      /\ GenerationsOf("chapter", b) = {}
                      /\ d > 0 => ChaptersAt(b, d, n) = {}
           /\ Len(chapters) <= Cardinality({b \in done : NonBlankBucket(b, d, n)})
           /\ \A k \in Positions({"sleep"}) :
                  /\ k > 1
                  /\ calls[k - 1].op = "generate"
                  /\ calls[k - 1].step = "chapter"
                  /\ ~calls[k - 1].raised
           /\ Cardinality(Positions({"generate"})) =
                  Cardinality({b \in done : NonBlankBucket(b, d, n)})

\* two buckets over 6 seconds: the first holds only a segment without text
\* and is skipped, although the backend fails (it does for the second)
C6_Witness ==
    /\ pc = "topics"
    /\ num_chapters = 2
    /\ video_info.duration = 6
    /\ selected = << << 1 >>, << 2 >> >>
    /\ segments[1].text = << >>
    /\ Len(calls) = 1
    /\ calls[1].bucket = 1 /\ calls[1].raised
    /\ Len(chapters) = 1
    /\ chapters[1].title = << "Chapter ", "2" >>

-----------------------------------------------------------------------------
(* C7 *)

\* the text has a line that, trimmed, starts with the label
HasLine(text, label) ==
    LET lines == Split(text, << NL >>)
    IN \E k \in 1..Len(lines) : StartsWith(Strip(lines[k]), label)

\* C7: when the last per-chapter call returned normally, its bucket has a
\* chapter in the list if and only if the response holds both a TITLE: line
\* and a SUMMARY: line, and that chapter is the parsed one, not the
\* fallback; when either line is missing the bucket has no chapter at all.
\* When the call raised instead, the bucket has the fallback chapter.
C7_ChapterIffTitleAndSummary ==
    ( /\ pc \in {"chapter_loop", "topics"}
      /\ num_chapters >= 1
      /\ response # None
      /\ response.step = "chapter" ) =>
        LET d == video_info.duration
            n == num_chapters
            b == response.bucket
            here == ChaptersAt(b, d, n)
        IN IF response.raised
           THEN /\ Cardinality(here) = 1
                /\ \A c \in here : IsFallback(chapters[c], b, d, n)
           ELSE /\ here # {} <=>
                       /\ HasLine(response.text, TITLE)
                       /\ HasLine(response.text, SUMMARY)
                /\ Cardinality(here) <= 1
                /\ \A c \in here :
                       /\ ~IsFallback(chapters[c], b, d, n)
                       /\ chapters[c].summary # PlaceholderSummary
                       /\ chapters[c].key_points # << PlaceholderPoint >>

\* the call of the first bucket raised and left a fallback chapter; the call
\* of the second returned a response without a TITLE: line and left nothing
C7_Witness ==
    /\ pc = "topics"
    /\ num_chapters = 2
    /\ RaisedIn("chapter", 0)
    /\ response # None
    /\ response.bucket = 1
    /\ ~response.raised
    /\ ~HasLine(response.text, TITLE)
    /\ HasLine(response.text, SUMMARY)
    /\ Len(chapters) = 1
    /\ chapters[1].title = << "Chapter ", "1" >>

-----------------------------------------------------------------------------
(* C8 *)

\* the lines of a block of the response
BlockLines(block) == Split(Strip(block), << NL >>)

\* the block has a line that starts with the label
BlockHas(block, label) ==
    LET lines == BlockLines(block)
    IN \E k \in 1..Len(lines) : StartsWith(lines[k], label)

\* the texts that follow the label on the lines of the block that start with it
FieldsOf(block, label) ==
    LET lines == BlockLines(block)
    IN {Strip(Replace(lines[k], label)) :
           k \in {j \in 1..Len(lines) : StartsWith(lines[j], label)}}

CompleteBlocks(text) ==
    SelectSeq(Split(text, << "-", "-", "-" >>),
              LAMBDA block : /\ BlockHas(block, CONCEPT)
                             /\ BlockHas(block, DEFINITION)
                             /\ BlockHas(block, IMPORTANCE))

\* C8: the key concepts parsed from a response are, in block order, one for
\* each block (between the '---' separators) that has a CONCEPT: line, a
\* DEFINITION: line and an IMPORTANCE: line, with its three fields taken
\* from such lines of that block, and none for any other block: as many
\* concepts as complete blocks.
C8_OneConceptPerCompleteBlock ==
    ( /\ pc = "chapters"
      /\ response # None
      /\ response.step = "key_concepts"
      /\ ~response.raised ) =>
        LET complete == CompleteBlocks(response.text)
        IN /\ Len(key_concepts) = Len(complete)
           /\ \A k \in 1..Len(key_concepts) :
                  /\ key_concepts[k].term \in FieldsOf(complete[k], CONCEPT)
                  /\ key_concepts[k].definition \in FieldsOf(complete[k], DEFINITION)
                  /\ key_concepts[k].importance \in FieldsOf(complete[k], IMPORTANCE)

\* a response of three blocks, each closed by '---', the middle one without
\* a CONCEPT: line: two concepts, D before A
C8_Witness ==
    /\ pc = "chapters"
    /\ response # None
    /\ ~response.raised
    /\ Len(Split(response.text, Separator)) = 4
    /\ ~BlockHas(Split(response.text, Separator)[2], CONCEPT)
    /\ BlockHas(Split(response.text, Separator)[2], DEFINITION)
    /\ Len(key_concepts) = 2
    /\ key_concepts[1].term = << "D" >>
    /\ key_concepts[2].term = << "A" >>

-----------------------------------------------------------------------------
(* C9 *)

\* C9: every KeyConcept has a non-empty term, definition and importance (a
\* block with a bare 'CONCEPT:' line gives no KeyConcept).
C9_NoEmptyField ==
    \A k \in 1..Len(key_concepts) :
        /\ key_concepts[k].term # << >>
        /\ key_concepts[k].definition # << >>
        /\ key_concepts[k].importance # << >>

-----------------------------------------------------------------------------
(* C10 *)

\* C10: key_concepts_limit is a maximum: the key_concepts list that
\* process_transcript returns has at most key_concepts_limit entries.
C10_LimitIsMaximum ==
    (video_info # None /\ pc \notin {"summary", "key_concepts"}) =>
        Len(key_concepts) <= limit

-----------------------------------------------------------------------------
(* C11 *)

\* the lines of a response, stripped
StrippedLines(text) ==
    LET lines == Split(text, << NL >>)
    IN [k \in 1..Len(lines) |-> Strip(lines[k])]

\* a list is the first `cap` entries, at most, of the full list
IsCappedPrefix(list, full, cap) ==
    /\ Len(list) <= cap
    /\ Len(list) = IF Len(full) < cap THEN Len(full) ELSE cap
    /\ \A k \in 1..Len(list) : list[k] = full[k]

\* the qualifying lines of a topics response: not empty, not a heading, and
\* something left once the numbering is removed
QualifyingTopics(text) ==
    SelectSeq(StrippedLines(text),
              LAMBDA l : /\ l # << >>
                         /\ Head(l) # "#"
                         /\ StripNumbering(l) # << >>)

\* of an objectives response: lines that open with 'Students will' or '-'
QualifyingObjectives(text) ==
    SelectSeq(StrippedLines(text),
              LAMBDA l : l # << >> /\ Head(l) \in {"Students will", "-"})

\* of a questions response: lines with a '?'
QualifyingQuestions(text) ==
    SelectSeq(StrippedLines(text),
              LAMBDA l : /\ \E k \in 1..Len(l) : l[k] = "?"
                         /\ StripNumbering(l) # << >>)

\* C11: main_topics has at most 8 entries, learning_objectives at most 6 and
\* questions at most 8, and each list is made of the first qualifying lines
\* of its response, in the order of the response.
C11_ListsAreCappedPrefixes ==
    (response # None /\ ~response.raised) =>
        /\ response.step = "topics" =>
               LET full == QualifyingTopics(response.text)
               IN IsCappedPrefix(main_topics,
                                 [k \in 1..Len(full) |-> StripNumbering(full[k])], 8)
        /\ response.step = "objectives" =>
               LET full == QualifyingObjectives(response.text)
               IN IsCappedPrefix(learning_objectives,
                                 [k \in 1..Len(full) |-> Strip(Replace(full[k], Bullet))], 6)
        /\ response.step = "questions" =>
               LET full == QualifyingQuestions(response.text)
               IN IsCappedPrefix(questions,
                                 [k \in 1..Len(full) |-> StripNumbering(full[k])], 8)

\* a topics response with nine qualifying lines, the ninth unlike the first
C11_Witness ==
    /\ response # None
    /\ ~response.raised
    /\ response.step = "topics"
    /\ Len(QualifyingTopics(response.text)) = 9
    /\ Len(main_topics) = 8
    /\ main_topics[1] = << "A" >>
    /\ QualifyingTopics(response.text)[9] = << "1", ".", SP, "B" >>

-----------------------------------------------------------------------------
(* C12 *)

\* this step is a generation call of `step` that raised
RaisesNow(step) ==
    /\ Len(calls') = Len(calls) + 1
    /\ calls'[Len(calls')].op = "generate"
    /\ calls'[Len(calls')].step = step
    /\ calls'[Len(calls')].raised

\* the step went on to what follows it, with no exception in flight
GoesOn == exc' = None /\ pc' \notin {"except", "propagated"}

\* C12: when its generation call raises, a non-chapter step does not raise
\* and returns its default: the summary step the placeholder sentence, the
\* key concepts, topics, objectives and questions steps the empty list.
C12_FailedStepReturnsDefault ==
    [][/\ RaisesNow("summary") =>
            /\ GoesOn
            /\ summary' = << "Summary generation failed. Please try again." >>
       /\ RaisesNow("key_concepts") => GoesOn /\ key_concepts' = << >>
       /\ RaisesNow("topics") => GoesOn /\ main_topics' = << >>
       /\ RaisesNow("objectives") => GoesOn /\ learning_objectives' = << >>
       /\ RaisesNow("questions") => GoesOn /\ questions' = << >>]_vars

\* all five calls raised, and process_transcript returned
C12_Witness ==
    /\ pc = "publish"
    /\ \A step \in {"summary", "key_concepts", "topics", "objectives", "questions"} :
           RaisedIn(step, -1)
    /\ summary = << "Summary generation failed. Please try again." >>
    /\ key_concepts = << >>
    /\ main_topics = << >>
    /\ learning_objectives = << >>
    /\ questions = << >>

-----------------------------------------------------------------------------
(* C13 *)

\* get_transcript returned, and this is the value fetch() had returned
Fetched == calls[Len(calls)].data
ReturnedFrom(kind) == pc = "got_transcript" /\ Fetched.kind = kind

\* the positions, among all the lines of a string, of the non-blank lines
NonBlankPositions(text) ==
    LET lines == StrippedLines(text)
    IN SelectSeq([j \in 1..Len(lines) |-> j], LAMBDA j : lines[j] # << >>)

\* C13 as stated: for a plain-string transcript there is one segment per
\* non-blank line, in order, and the k-th non-blank line, k counted from 0
\* over the non-blank lines only, starts at 5*k and lasts 5.
C13_AsClaimed ==
    ReturnedFrom("str") =>
        LET lines == StrippedLines(Fetched.text)
            kept == NonBlankPositions(Fetched.text)
        IN /\ Len(segments) = Len(kept)
           /\ \A k \in 1..Len(kept) :
                  segments[k] = Segment(lines[kept[k]], 5 * (k - 1), 5)

\* C13, amended: for a plain-string transcript there is one segment per
\* non-blank line, in order, and a line starts at 5*j, j being its index
\* from 0 among all the lines of the string, blank ones included, and
\* lasts 5.
C13_SlotsCountEveryLine ==
    ReturnedFrom("str") =>
        LET lines == StrippedLines(Fetched.text)
            kept == NonBlankPositions(Fetched.text)
        IN /\ Len(segments) = Len(kept)
           /\ \A k \in 1..Len(kept) :
                  segments[k] = Segment(lines[kept[k]], 5 * (kept[k] - 1), 5)

\* the lines a, b, (blank), c: three segments, at 0, 5 and 15
C13_Witness ==
    /\ ReturnedFrom("str")
    /\ Fetched.text = << "a", NL, SP, "b", SP, NL, NL, "c" >>
    /\ Len(segments) = 3
    /\ segments[1].start = 0
    /\ segments[2].start = 5
    /\ segments[3].start = 15
    /\ segments[3].text = << "c" >>

-----------------------------------------------------------------------------
(* C14 *)

GetTranscriptOver == pc \in {"raised", "got_transcript"}

FetchRaised ==
    /\ calls # << >>
    /\ calls[Len(calls)].op = "transcripts.fetch"
    /\ calls[Len(calls)].raised

FetchReturned ==
    /\ calls # << >>
    /\ calls[Len(calls)].op = "transcripts.fetch"
    /\ ~calls[Len(calls)].raised

ListRaised ==
    /\ Len(calls) >= 2
    /\ calls[Len(calls) - 1].op = "transcripts.list"
    /\ calls[Len(calls) - 1].raised

\* the fetched value was normalised, without an error, to no segment at all
YieldsNoSegment ==
    FetchReturned /\ ~NormalizeRaises(Fetched) /\ Normalize(Fetched) = << >>

NotAvailableRaised ==
    pc = "raised" /\ exc # None /\ exc.class = "TranscriptNotAvailableError"

\* C14: get_transcript raises TranscriptNotAvailableError exactly when the
\* fetch raises or the fetched value is normalised to zero segments; a
\* failure of the listing call alone does not make it fail; and what it
\* returns is never empty.
C14_NotAvailableExactlyWhen ==
    GetTranscriptOver =>
        /\ NotAvailableRaised <=> (FetchRaised \/ YieldsNoSegment)
        /\ (ListRaised /\ FetchReturned /\ ~NormalizeRaises(Fetched)
              /\ Normalize(Fetched) # << >>) => (pc = "got_transcript" /\ exc = None)
        /\ pc = "got_transcript" => segments # << >>

\* the listing failed, the fetch returned a string of blank lines only:
\* TranscriptNotAvailableError for want of segments
C14_Witness ==
    /\ NotAvailableRaised
    /\ ListRaised
    /\ FetchReturned
    /\ Fetched.kind = "str"
    /\ Fetched.text = << SP, NL, NL >>

-----------------------------------------------------------------------------
(* C15 *)

\* get_video_info returned the info of a video, whose duration string this is
GotVideoInfo == returned # << >> /\ ~returned[Len(returned)].raised
DurationStr == calls[Len(calls)].item.duration

\* the number written before a unit letter in a duration 'PT..', read off
\* the string by cutting it at the letters: 0 when the letter is not there
RECURSIVE Decimal(_, _)
Decimal(ds, k) ==
    IF k = 0 THEN 0 ELSE 10 * Decimal(ds, k - 1) + DigitValue(ds[k])

Written(d, unit) ==
    LET body == SubSeq(d, 3, Len(d))
        afterH == IF \E k \in 1..Len(body) : body[k] = "H"
                  THEN Split(body, << "H" >>)[2] ELSE body
        afterM == IF \E k \in 1..Len(afterH) : afterH[k] = "M"
                  THEN Split(afterH, << "M" >>)[2] ELSE afterH
        before == CASE unit = "H" -> body [] unit = "M" -> afterH [] unit = "S" -> afterM
    IN IF \E k \in 1..Len(before) : before[k] = unit
       THEN Decimal(Split(before, << unit >>)[1], Len(Split(before, << unit >>)[1]))
       ELSE 0

\* C15: for a duration string PT[xH][yM][zS], any of the three components
\* present or absent, the parsed duration is x*3600 + y*60 + z, an absent
\* component counting 0.
C15_DurationIsHoursMinutesSeconds ==
    (GotVideoInfo /\ DurationStr \in DurationStrings) =>
        returned[Len(returned)].value.duration =
            Written(DurationStr, "H") * 3600 + Written(DurationStr, "M") * 60
            + Written(DurationStr, "S")

\* PT2H3M30S is 7410 seconds
C15_Witness ==
    /\ GotVideoInfo
    /\ DurationStr = << "P", "T", "2", "H", "3", "M", "3", "0", "S" >>
    /\ returned[Len(returned)].value.duration = 7410

-----------------------------------------------------------------------------
(* C16 *)

\* a page was sent for creation; its blocks and the content it was made of
PageSent == calls # << >> /\ calls[Len(calls)].op = "pages.create"
PageBlocks == calls[Len(calls)].children
PageContent == calls[Len(calls)].content

\* the sections between header and footer, in the order they are to have
SectionHeadings ==
    << << "Summary" >>, << "Learning Objectives" >>, << "Main Topics" >>,
       << "Key Concepts" >>, << "Chapters" >>, << "Review Questions" >> >>

Rank(heading) == CHOOSE r \in 1..Len(SectionHeadings) : SectionHeadings[r] = heading

Range(list) == {list[k] : k \in 1..Len(list)}

\* the section a block that is not a section heading is part of, told by
\* its type and text alone: the ranks of the sections it may belong to
SectionsOf(block, content) ==
    {r \in 1..6 :
        CASE r = 1 -> /\ block.type = "paragraph"
                      /\ \E p \in Range(Split(content.summary, << NL, NL >>)) :
                             block.content = Strip(p)
          [] r = 2 -> /\ block.type = "bulleted_list_item"
                      /\ block.content \in Range(content.learning_objectives)
          [] r = 3 -> /\ block.type = "numbered_list_item"
                      /\ block.content \in Range(content.main_topics)
          [] r = 4 -> \E c \in Range(content.key_concepts) :
                          \/ block = Block("heading_3", c.term)
                          \/ block = Block("paragraph", << "**Definition:** " >> \o c.definition)
                          \/ block = Block("paragraph", << "**Why it matters:** " >> \o c.importance)
          [] r = 5 -> \E c \in Range(content.chapters) :
                          \/ block.type = "heading_3" /\ Contains(block.content, c.title)
                          \/ block = Block("paragraph", c.summary)
                          \/ block = Block("paragraph", << "**Key Points:**" >>)
                          \/ /\ block.type = "bulleted_list_item"
                             /\ block.content \in Range(c.key_points)
          [] r = 6 -> /\ block.type = "numbered_list_item"
                      /\ block.content \in Range(content.questions)}

\* the rank of the section at position k: that of the heading_2 there, or
\* the ranks the block may have
RanksAt(blocks, content, k) ==
    IF blocks[k].type = "heading_2" THEN {Rank(blocks[k].content)}
    ELSE SectionsOf(blocks[k], content)

\* C16: the blocks of a page are the header (heading_1, paragraph, divider),
\* then the sections summary, learning objectives, main topics, key
\* concepts, chapters, review questions in that order, no block of a later
\* section before a block of an earlier one, then the footer (divider,
\* paragraph).
C16_SectionsInFixedOrder ==
    PageSent =>
        LET b == PageBlocks
            n == Len(PageBlocks)
        IN /\ n >= 5
           /\ << b[1].type, b[2].type, b[3].type >> = << "heading_1", "paragraph", "divider" >>
           /\ << b[n - 1].type, b[n].type >> = << "divider", "paragraph" >>
           /\ \A k \in 4..(n - 2) :
                  /\ b[k].type # "divider"
                  /\ b[k].type = "heading_2" => b[k].content \in Range(SectionHeadings)
                  /\ RanksAt(b, PageContent, k) # {}
           /\ \A j \in 4..(n - 2) : \A k \in (j + 1)..(n - 2) :
                  \E rj \in RanksAt(b, PageContent, j) :
                      \E rk \in RanksAt(b, PageContent, k) : rj <= rk
           /\ \A j \in 4..(n - 2) : \A k \in (j + 1)..(n - 2) :
                  (b[j].type = "heading_2" /\ b[k].type = "heading_2") =>
                      Rank(b[j].content) < Rank(b[k].content)

\* a page with every section: objectives, topics, concept, chapter, questions
C16_Witness ==
    /\ PageSent
    /\ PageContent.summary = << "S", NL, NL, SP, "T" >>
    /\ Len(PageContent.learning_objectives) = 2
    /\ Len(PageContent.main_topics) = 2
    /\ Len(PageContent.key_concepts) = 1
    /\ Len(PageContent.chapters) = 1
    /\ Len(PageContent.questions) = 2
    /\ PageContent.chapters[1].key_points # << >>
    /\ Len(PageBlocks) = 26

-----------------------------------------------------------------------------
(* C17 *)

HasHeading(blocks, heading) ==
    \E k \in 1..Len(blocks) : blocks[k] = Block("heading_2", heading)

\* C17: a section other than header and footer whose content is empty
\* contributes no block, no heading either: so it is for a summary that is
\* empty or blank and for empty objectives, topics, key concepts, chapters
\* and questions, and a ProcessedContent with nothing in it is rendered as
\* the 3 blocks of the header and the 2 of the footer.
C17_EmptySectionsOmitted ==
    PageSent =>
        LET c == PageContent
        IN /\ Strip(c.summary) = << >> => ~HasHeading(PageBlocks, << "Summary" >>)
           /\ c.learning_objectives = << >> =>
                  ~HasHeading(PageBlocks, << "Learning Objectives" >>)
           /\ c.main_topics = << >> => ~HasHeading(PageBlocks, << "Main Topics" >>)
           /\ c.key_concepts = << >> => ~HasHeading(PageBlocks, << "Key Concepts" >>)
           /\ c.chapters = << >> => ~HasHeading(PageBlocks, << "Chapters" >>)
           /\ c.questions = << >> => ~HasHeading(PageBlocks, << "Review Questions" >>)
           /\ (/\ Strip(c.summary) = << >>
               /\ c.learning_objectives = << >> /\ c.main_topics = << >>
               /\ c.key_concepts = << >> /\ c.chapters = << >>
               /\ c.questions = << >>) => Len(PageBlocks) = 5

-----------------------------------------------------------------------------
(* C18 *)

\* this step is a call of a public operation other than process_video
ReturnsNow(op) ==
    /\ Len(returned') = Len(returned) + 1
    /\ returned'[Len(returned')].op = op

\* the calls made during this step
NewCalls == SubSeq(calls', Len(calls) + 1, Len(calls'))

\* test_connections does not raise and returns a boolean for each of
\* youtube, google_ai and notion; the three checks are all made, whatever
\* the others give, and each reports its own outcome
ThreeIndependentChecks ==
    LET r == returned'[Len(returned')]
    IN /\ ~r.raised
       /\ DOMAIN r.value = {"youtube", "google_ai", "notion"}
       /\ \A service \in DOMAIN r.value : r.value[service] \in BOOLEAN
       /\ Len(NewCalls) = 3
       /\ r.value.youtube = ~NewCalls[1].raised
       /\ r.value.google_ai = ~NewCalls[2].raised
       /\ r.value.notion = ~NewCalls[3].raised

\* C18 as stated: test_connections never raises and returns exactly the
\* keys youtube, google_ai, notion, each boolean; the checks are
\* independent; and each check re-initializes its remote client.
C18_AsClaimed ==
    [][ReturnsNow("test_connections") =>
           /\ ThreeIndependentChecks
           /\ NewCalls[1].op = "discovery.build"
           /\ NewCalls[2].op = "GenerativeModel"
           /\ NewCalls[3].op = "Client"]_vars

\* C18, amended: test_connections never raises and returns exactly the keys
\* youtube, google_ai, notion, each boolean; the checks are independent;
\* the youtube and google_ai checks re-initialize their clients, and the
\* notion check queries the database through the client it already has.
C18_ChecksIndependentTwoReinitialize ==
    [][ReturnsNow("test_connections") =>
           /\ ThreeIndependentChecks
           /\ NewCalls[1].op = "discovery.build"
           /\ NewCalls[2].op = "GenerativeModel"
           /\ NewCalls[3].op = "databases.retrieve"
           /\ clients'.youtube_service =
                  clients.youtube_service + (IF NewCalls[1].raised THEN 0 ELSE 1)
           /\ clients'.model = clients.model + (IF NewCalls[2].raised THEN 0 ELSE 1)
           /\ clients'.client = clients.client]_vars

\* youtube down, google_ai up, notion down
C18_Witness ==
    /\ returned # << >>
    /\ returned[Len(returned)].op = "test_connections"
    /\ returned[Len(returned)].value =
           [youtube |-> FALSE, google_ai |-> TRUE, notion |-> FALSE]
    /\ clients = [youtube_service |-> 1, model |-> 2, client |-> 1]

-----------------------------------------------------------------------------
(* C19 *)

\* C19 as stated: over any sequence of public operations, each remote
\* client handle is the one acquired at construction: none is constructed
\* again.
C19_AsClaimed == clients = Constructed

\* C19, amended: over any sequence of public operations, process_video,
\* get_video_info and process_playlist construct no client handle, and the
\* publishing client is never constructed again; test_connections
\* constructs the metadata service and the generation model again, at most
\* once each per call.
C19_OnlyTestConnectionsReacquires ==
    [][/\ clients'.client = clients.client
       /\ clients' # clients => ReturnsNow("test_connections")
       /\ clients'.youtube_service \in {clients.youtube_service,
                                        clients.youtube_service + 1}
       /\ clients'.model \in {clients.model, clients.model + 1}]_vars

\* two calls of test_connections, then a process_video that published
C19_Witness ==
    /\ clients.youtube_service = 3
    /\ clients.model = 2
    /\ clients.client = 1
    /\ pc = "returned"
    /\ result # None
    /\ result.success
    /\ \E k \in 1..Len(calls) : calls[k].op = "pages.create"

-----------------------------------------------------------------------------
(* C20 *)

\* C20: process_playlist returns an empty list, whatever its arguments,
\* makes no extraction, generation or publishing call and changes nothing
\* of the notetaker.
C20_PlaylistReturnsEmpty ==
    [][ReturnsNow("process_playlist") =>
           /\ ~returned'[Len(returned')].raised
           /\ returned'[Len(returned')].value = << >>
           /\ calls' = calls
           /\ UNCHANGED << pc, config, clients, args, video_info, segments,
                           num_chapters, limit, i, response, summary,
                           key_concepts, chapters, main_topics,
                           learning_objectives, questions, selected, exc,
                           result >>]_vars

\* process_playlist called for two videos on a notetaker that has
\* processed a video
C20_Witness ==
    /\ pc = "returned"
    /\ result # None
    /\ returned # << >>
    /\ returned[Len(returned)].op = "process_playlist"
    /\ returned[Len(returned)].args.max_videos = Some(2)
    /\ returned[Len(returned)].value = << >>

-----------------------------------------------------------------------------
(* C21 *)

\* the four required values of the configuration, each with the name it is
\* reported under
C21_Required ==
    { [value |-> config.youtube_api_key, name |-> "YOUTUBE_API_KEY"],
      [value |-> config.google_ai_api_key, name |-> "GOOGLE_AI_API_KEY"],
      [value |-> config.notion_token, name |-> "NOTION_TOKEN"],
      [value |-> config.notion_database_id, name |-> "NOTION_DATABASE_ID"] }

C21_Missing == {r.name : r \in {x \in C21_Required : x.value = << >>}}

\* the names listed in the message of the exception e
C21_Listed(e) == {e.msg[k] : k \in 2..Len(e.msg)} \ {", "}

\* C21: when the notetaker is constructed, Config.validate raises exactly
\* when one of the four required values is empty, the message lists exactly
\* the names of the empty ones, and the exception is a ConfigurationError.
\* The code raises ValueError.
C21_RaisesConfigurationError ==
    [][(pc = "dispatch" /\ Mode(args) # "none") =>
          /\ (exc' # None) <=> (C21_Missing # {})
          /\ exc' # None =>
                /\ C21_Listed(exc') = C21_Missing
                /\ exc'.class = "ConfigurationError"]_vars

-----------------------------------------------------------------------------
(* C22 *)

\* what main handed to the command line
C22_Exit == returned[Len(returned)]

\* the selected mode succeeded: a successful NoteResult, three connections
\* that answered, a VideoInfo, a playlist without a failed result
C22_ModeSucceeded ==
    \/ result # None /\ result.success
    \/ /\ Len(returned) = 2
       /\ ~returned[1].raised
       /\ returned[1].op = "test_connections" => AllGood(returned[1].value)
       /\ returned[1].op = "process_playlist" =>
              \A k \in 1..Len(returned[1].value) : returned[1].value[k].success

C22_Interrupted == exc # None /\ exc.class = "KeyboardInterrupt"

-----------------------------------------------------------------------------
(* C23 *)

\* the positions of the per-chapter generation calls in the log
C23_ChapterCalls ==
    {k \in Positions({"generate"}) : calls[k].step = "chapter"}

\* C23: between any two consecutive per-chapter generation calls the delay
\* is executed (a sleep is logged between them), whether the earlier call
\* returned a chapter, returned an unparsable response, or raised.
\* The code sleeps inside the try block, after the call and the parsing: a
\* call that raises skips the sleep.
C23_DelayBetweenChapterCalls ==
    \A j \in C23_ChapterCalls, k \in C23_ChapterCalls :
        (j < k /\ \A m \in C23_ChapterCalls : ~(j < m /\ m < k)) =>
            \E m \in Positions({"sleep"}) : j < m /\ m < k

-----------------------------------------------------------------------------
(* C24 *)

C24_Order == << "videos.list", "transcripts.list", "transcripts.fetch" >>

C24_BadUrl ==
    /\ exc # None
    /\ exc.class = "TranscriptExtractionError"
    /\ Head(exc.msg) = "Could not extract video ID from URL: "

-----------------------------------------------------------------------------
(* C25 *)

\* a line with its leading '- ' removed, and trimmed
C25_WithoutLeadingBullet(line) == Strip(SubSeq(line, Len(Bullet) + 1, Len(line)))

\* the bullets after the marker line, in order
RECURSIVE C25_BulletsAfterMarker(_, _)
C25_BulletsAfterMarker(lines, marked) ==
    IF lines = << >> THEN << >>
    ELSE IF StartsWith(Head(lines), KEY_POINTS)
    THEN C25_BulletsAfterMarker(Tail(lines), TRUE)
    ELSE IF marked /\ StartsWith(Head(lines), Bullet)
    THEN << C25_WithoutLeadingBullet(Head(lines)) >>
         \o C25_BulletsAfterMarker(Tail(lines), marked)
    ELSE C25_BulletsAfterMarker(Tail(lines), marked)

C25_ChapterParsed ==
    /\ response # None
    /\ response.step = "chapter"
    /\ ~response.raised
    /\ Len(chapters) = 1

\* C25: the key_points of a parsed chapter are the '- ' lines that come
\* after the KEY_POINTS: marker line, in order, each without its leading
\* '- ' and trimmed, a '- ' inside the text of a bullet being kept; '- '
\* lines before the marker are not key points.
\* The code removes every '- ' of the line.
C25_KeyPointsKeepInteriorBullets ==
    C25_ChapterParsed =>
        chapters[1].key_points
            = C25_BulletsAfterMarker(StrippedLines(response.text), FALSE)

-----------------------------------------------------------------------------
(* C26 *)

\* a kept line with its leading '- ', when it has one, removed
C26_Objective(line) ==
    IF StartsWith(line, Bullet)
    THEN Strip(SubSeq(line, Len(Bullet) + 1, Len(line)))
    ELSE line

C26_ObjectivesParsed ==
    /\ response # None
    /\ response.step = "objectives"
    /\ ~response.raised

\* C26: learning_objectives is made, in order, of the trimmed lines of the
\* response that open with 'Students will' or '-' (the first six of them),
\* each with only its leading '- ' removed: what follows, a later '- '
\* included, is unchanged.
\* The code removes every '- ' of the line.
C26_ObjectivesKeepInteriorBullets ==
    C26_ObjectivesParsed =>
        LET kept == QualifyingObjectives(response.text)
        IN IsCappedPrefix(learning_objectives,
                          [k \in 1..Len(kept) |-> C26_Objective(kept[k])],
                          ObjectivesCap)

-----------------------------------------------------------------------------
(* C27 *)

\* the title the run works with: the caller's when it is given and not
\* empty, the fetched one otherwise (both sample videos are fetched with
\* the title 'Fetched')
C27_Title == IF Truthy(args.title) THEN args.title[1] ELSE << "Fetched" >>

\* C27: the title override is applied right after extraction: from then on
\* the VideoInfo of the run has the custom title when one was given and is
\* not empty, and the fetched title otherwise; every generation prompt is
\* written with that title, the published page has it in its title and in
\* its heading, and the successful NoteResult returns it.
C27_CustomTitleEverywhere ==
    args # None =>
        /\ video_info # None => video_info.title = C27_Title
        /\ \A k \in Positions({"generate"}) : calls[k].title = C27_Title
        /\ \A k \in Positions({"pages.create"}) :
               /\ calls[k].title = PageTitle(C27_Title)
               /\ calls[k].children[1] = Block("heading_1", C27_Title)
        /\ (result # None /\ result.success) =>
               result.video_info.title = C27_Title

\* a run with a custom title that generated, published and returned
C27_Witness ==
    /\ pc = "returned"
    /\ result.success
    /\ args.title = Some(<< "Custom" >>)
    /\ result.video_info.title = << "Custom" >>
    /\ Cardinality(Positions({"generate"})) >= 6
    /\ Positions({"pages.create"}) # {}

-----------------------------------------------------------------------------
(* C28 *)

\* C28: a NoteResult with success = true has no error_message, the
\* VideoInfo and the ProcessedContent of the run, and a notion_url exactly
\* when a page was asked for; one with success = false has no notion_url,
\* has an error_message, and has the two placeholders, also when only the
\* publishing failed and the content had been computed.
C28_NoteResultShape ==
    result # None =>
        IF result.success
        THEN /\ result.error_message = Nothing
             /\ result.video_info = video_info
             /\ result.processed_content = Content
             /\ result.notion_url # Nothing <=> args.create_notion_page
        ELSE /\ result.notion_url = Nothing
             /\ result.error_message # Nothing
             /\ result.video_info = ErrorVideoInfo
             /\ result.processed_content = EmptyContent

\* only the publishing failed: the content was computed and is not returned
C28_Witness ==
    /\ pc = "returned"
    /\ ~result.success
    /\ exc.class = "NotionAPIError"
    /\ Content # EmptyContent
    /\ video_info # None
    /\ result.processed_content = EmptyContent
    /\ result.video_info = ErrorVideoInfo

-----------------------------------------------------------------------------
(* C29 *)

C29_Calls == {k \in Positions({"generate"}) : calls[k].step = "chapter"}

\* the per-chapter call k of the log raised, or returned a response with a
\* TITLE: line and a SUMMARY: line
C29_RaisedOrParsable(k) ==
    \/ calls[k].raised
    \/ HasLine(calls[k].text, TITLE) /\ HasLine(calls[k].text, SUMMARY)

\* C29: with num_chapters = N >= 1 and duration D > 0 the list of chapters
\* has at most N entries and at most one per bucket, each starting where a
\* bucket starts; start_time increases strictly along the list, the
\* end_time of a chapter is at most the start_time of the next one and at
\* most D; and once the loop is over the list has exactly N entries when
\* every bucket had non-blank text and every call raised or returned both
\* a TITLE: and a SUMMARY: line.
C29_ChapterListShape ==
    ( /\ num_chapters >= 1
      /\ pc \in {"chapter_loop", "topics"}
      /\ video_info.duration > 0 ) =>
        LET d == video_info.duration
            n == num_chapters
        IN /\ Len(chapters) <= n
           /\ \A b \in 0..(n - 1) : Cardinality(ChaptersAt(b, d, n)) <= 1
           /\ \A c \in 1..Len(chapters) :
                  /\ \E b \in 0..(n - 1) : c \in ChaptersAt(b, d, n)
                  /\ FracLeq(chapters[c].end_time, Secs(d))
           /\ \A c \in 1..(Len(chapters) - 1) :
                  /\ FracLess(chapters[c].start_time, chapters[c + 1].start_time)
                  /\ FracLeq(chapters[c].end_time, chapters[c + 1].start_time)
           /\ ( /\ pc = "topics"
                /\ \A b \in 0..(n - 1) : NonBlankBucket(b, d, n)
                /\ \A k \in C29_Calls : C29_RaisedOrParsable(k) ) =>
                  Len(chapters) = n

\* two chapters out of two buckets, one of them the fallback
C29_Witness ==
    /\ pc = "topics"
    /\ num_chapters = 2
    /\ video_info.duration = 7
    /\ Len(chapters) = 2
    /\ \E k \in C29_Calls : calls[k].raised
    /\ \E k \in C29_Calls : ~calls[k].raised

-----------------------------------------------------------------------------
(* C30 *)

\* an optional number the caller did not supply, or supplied as 0
C30_NotSupplied(opt) == opt = Nothing \/ opt = Some(0)

C30_Resolved(opt, default) == IF C30_NotSupplied(opt) THEN default ELSE opt[1]

C30_GenerationSteps == {calls[k].step : k \in Positions({"generate"})}

\* C30: process_video passes the configured default for summary_length,
\* chapters and key_concepts_limit when the caller's value is None or 0, and
\* the caller's value otherwise, so num_chapters is 0 only when
\* default_chapters is 0; in that case process_transcript raises
\* AIProcessingError once the summary and the key-concept calls were made,
\* no other generation call is made, nothing is published and process_video
\* returns a failed NoteResult.
C30_ZeroMeansDefault ==
    (args # None /\ video_info # None) =>
        /\ num_chapters = C30_Resolved(args.chapters, config.default_chapters)
        /\ limit = C30_Resolved(args.key_concepts_limit, config.key_concepts_limit)
        /\ \A k \in GenerationsOf("summary", -1) :
               calls[k].target_length
                   = C30_Resolved(args.summary_length, config.summary_length)
        /\ num_chapters = 0 => config.default_chapters = 0
        /\ (num_chapters = 0 /\ pc \in {"except", "returned"}) =>
               /\ exc # None
               /\ exc.class = "AIProcessingError"
               /\ C30_GenerationSteps = {"summary", "key_concepts"}
               /\ Positions({"pages.create"}) = {}
               /\ pc = "returned" => ~result.success

\* the caller asked for 0 chapters, the configured default is 0 as well,
\* and the run failed after its two first generation calls
C30_Witness ==
    /\ pc = "returned"
    /\ args.chapters = Some(0)
    /\ config.default_chapters = 0
    /\ ~result.success
    /\ Cardinality(Positions({"generate"})) = 2
    /\ args.create_notion_page

=============================================================================
